---- MODULE Spec2Model ----
(***************************************************************************)
(* A model of velecs-math (Vec3/Vec4, Quat, Mat4 wrappers over GLM).       *)
(*                                                                         *)
(* Numbers.  A C++ float is modelled by an exact value of the field        *)
(* Q(sqrt 2), extended with the IEEE-754 specials: the record              *)
(* [a, b, d, e] with d > 0 stands for (a + b*sqrt(2)) / (d * 10^(6e)) in   *)
(* lowest terms, and d = 0 for +Inf (a = 1), -Inf (a = -1) and NaN         *)
(* (a = 0).  Rounding and the sign of zero are not modelled: every         *)
(* statement below is about exactly representable values.  Division by     *)
(* zero gives Inf or NaN as IEEE-754 division does, it never traps.        *)
(*                                                                         *)
(* Angles.  A quantity in radians is held in units of pi (1/2 is pi/2), a  *)
(* quantity in degrees as the number of degrees; DEG_TO_RAD is the number  *)
(* that converts between them.  cos, sin and tan are tabulated at the      *)
(* multiples of pi/4 (tan: pi/8), where their values lie in Q(sqrt 2).     *)
(*                                                                         *)
(* Matrices.  glm::mat4 is column-major: m[c][r] is column c, row r, with  *)
(* c, r in 0..3, exactly as the source indexes it.                         *)
(***************************************************************************)
EXTENDS Integers, Sequences, FiniteSets, TLC

\* ------------------------------------------------------------------ numbers

Abs(x) == IF x < 0 THEN -x ELSE x

Sgn(x) == IF x < 0 THEN -1 ELSE IF x > 0 THEN 1 ELSE 0

\* the element of a one-element set: The({F(v) : v \in {e}}) is F(e) with e
\* evaluated once, however often F uses it
The(S) == CHOOSE r \in S : TRUE

RECURSIVE GCD(_, _)
GCD(x, y) == IF y = 0 THEN x ELSE The({GCD(y, r) : r \in {x % y}})

NaN == [a |-> 0, b |-> 0, d |-> 0, e |-> 0]

PosInf == [a |-> 1, b |-> 0, d |-> 0, e |-> 0]

NegInf == [a |-> -1, b |-> 0, d |-> 0, e |-> 0]

\* 10^6: the step of the exponent e, which keeps values around 1e-6 and their
\* squares within the integers
Mega == 1000 * 1000

\* (a + b*sqrt(2)) / (d * Mega^e) as the one record of that value: the fraction
\* in lowest terms, d positive and holding no factor Mega, e >= 0; d # 0
RECURSIVE Lowest(_, _)
Lowest(t, e) ==
    IF t[3] % Mega = 0 THEN Lowest(<<t[1], t[2], t[3] \div Mega>>, e + 1)
    ELSE IF e < 0 THEN Lowest(<<t[1] * Mega, t[2] * Mega, t[3]>>, e + 1)
    ELSE The({IF e > 0 /\ h > 1
              THEN Lowest(<<t[1] \div h, t[2] \div h, t[3] * (Mega \div h)>>, e - 1)
              ELSE [a |-> t[1], b |-> t[2], d |-> t[3], e |-> e] :
                 h \in {GCD(GCD(Abs(t[1]), Abs(t[2])), Mega)}})

NormE(a, b, d, e) ==
    The({Lowest(<<(Sgn(d) * a) \div g[1], (Sgn(d) * b) \div g[1], Abs(d) \div g[1]>>, g[2]) :
            g \in {<<GCD(GCD(Abs(a), Abs(b)), Abs(d)), e>>}})

Norm(a, b, d) == NormE(a, b, d, 0)

Rat(n, d) == Norm(n, 0, d)

Int2F(n) == [a |-> n, b |-> 0, d |-> 1, e |-> 0]

Zero == Int2F(0)

One == Int2F(1)

Two == Int2F(2)

Sqrt2 == [a |-> 0, b |-> 1, d |-> 1, e |-> 0]

IsNaN(x) == x.d = 0 /\ x.a = 0

IsInf(x) == x.d = 0 /\ x.a # 0

IsFinite(x) == x.d > 0

\* sign of a + b*sqrt(2) (of the infinity, when x is one); 0 for NaN
SignOf(x) ==
    IF x.d = 0 THEN x.a
    ELSE IF x.a >= 0 /\ x.b >= 0 THEN Sgn(x.a + x.b)
    ELSE IF x.a <= 0 /\ x.b <= 0 THEN -1
    ELSE IF Abs(x.a) >= 2 * Abs(x.b) THEN Sgn(x.a)
    ELSE IF Abs(x.b) >= Abs(x.a) THEN Sgn(x.b)
    ELSE IF x.a > 0 THEN Sgn(x.a * x.a - 2 * x.b * x.b)
    ELSE Sgn(2 * x.b * x.b - x.a * x.a)

IsZero(x) == x.d > 0 /\ x.a = 0 /\ x.b = 0

InfOf(s) == IF s > 0 THEN PosInf ELSE IF s < 0 THEN NegInf ELSE NaN

Neg(x) == [a |-> -x.a, b |-> -x.b, d |-> x.d, e |-> x.e]

Add(x, y) ==
    IF x.d = 1 /\ y.d = 1 /\ x.e = 0 /\ y.e = 0
    THEN [a |-> x.a + y.a, b |-> x.b + y.b, d |-> 1, e |-> 0]
    ELSE IF IsNaN(x) \/ IsNaN(y) THEN NaN
    ELSE IF IsInf(x) /\ IsInf(y) THEN (IF x.a = y.a THEN x ELSE NaN)
    ELSE IF IsInf(x) THEN x
    ELSE IF IsInf(y) THEN y
    ELSE IF IsZero(x) THEN y
    ELSE IF IsZero(y) THEN x
    ELSE LET E == IF x.e > y.e THEN x.e ELSE y.e
             sx == Mega ^ (E - x.e)
             sy == Mega ^ (E - y.e)
         IN  NormE(sx * x.a * y.d + sy * y.a * x.d, sx * x.b * y.d + sy * y.b * x.d,
                   x.d * y.d, E)

Sub(x, y) == Add(x, Neg(y))

Mul(x, y) ==
    IF x.d = 1 /\ y.d = 1 /\ x.e = 0 /\ y.e = 0
    THEN [a |-> x.a * y.a + 2 * x.b * y.b, b |-> x.a * y.b + x.b * y.a, d |-> 1, e |-> 0]
    ELSE IF IsNaN(x) \/ IsNaN(y) THEN NaN
    ELSE IF IsInf(x) \/ IsInf(y) THEN InfOf(SignOf(x) * SignOf(y))
    ELSE NormE(x.a * y.a + 2 * x.b * y.b, x.a * y.b + x.b * y.a, x.d * y.d, x.e + y.e)

\* IEEE-754 division: x/0 is an infinity (NaN for 0/0), never an error
Div(x, y) ==
    IF IsNaN(x) \/ IsNaN(y) THEN NaN
    ELSE IF IsInf(x) THEN (IF IsInf(y) THEN NaN
                           ELSE IF IsZero(y) THEN x ELSE InfOf(SignOf(x) * SignOf(y)))
    ELSE IF IsInf(y) THEN Zero
    ELSE IF IsZero(y) THEN InfOf(SignOf(x))
    ELSE NormE((x.a * y.a - 2 * x.b * y.b) * y.d,
               (x.b * y.a - x.a * y.b) * y.d,
               x.d * (y.a * y.a - 2 * y.b * y.b), x.e - y.e)

Less(x, y) == ~IsNaN(x) /\ ~IsNaN(y) /\ x # y /\ SignOf(Sub(y, x)) > 0

Leq(x, y) == ~IsNaN(x) /\ ~IsNaN(y) /\ (x = y \/ Less(x, y))

\* ------------------------------------------------------------------ consts

\* Consts.hpp: PI / 180.0f, with radians held in units of pi
DEG_TO_RAD == Rat(1, 180)

RAD_TO_DEG == Int2F(180)

Half == Rat(1, 2)

\* ------------------------------------------------------------------ trig

\* index of the angle r (units of pi) in steps of pi/8, reduced to one turn
Eighth(r) == ((8 * r.a) \div r.d) % 16

OnEighth(r) == IsFinite(r) /\ r.b = 0 /\ r.e = 0 /\ (8 * r.a) % r.d = 0

OnQuarter(r) == OnEighth(r) /\ Eighth(r) % 2 = 0

HalfSqrt2 == [a |-> 0, b |-> 1, d |-> 2, e |-> 0]

CosTable == <<One, HalfSqrt2, Zero, Neg(HalfSqrt2), Neg(One), Neg(HalfSqrt2), Zero, HalfSqrt2>>

SinTable == <<Zero, HalfSqrt2, One, HalfSqrt2, Zero, Neg(HalfSqrt2), Neg(One), Neg(HalfSqrt2)>>

\* no value: evaluating it stops the check (an input off the tables)
Undefined == CHOOSE x \in {} : TRUE

\* std::cos / std::sin at a multiple of pi/4
Cos(r) == IF OnQuarter(r) THEN CosTable[(Eighth(r) \div 2) + 1] ELSE Undefined

Sin(r) == IF OnQuarter(r) THEN SinTable[(Eighth(r) \div 2) + 1] ELSE Undefined

\* std::tanf at a multiple of pi/8 other than an odd multiple of pi/2
Tan(r) ==
    LET k == Eighth(r) % 8
    IN  IF ~OnEighth(r) \/ k = 4 THEN Undefined
        ELSE IF k = 0 THEN Zero
        ELSE IF k = 1 THEN [a |-> -1, b |-> 1, d |-> 1, e |-> 0]
        ELSE IF k = 2 THEN One
        ELSE IF k = 3 THEN [a |-> 1, b |-> 1, d |-> 1, e |-> 0]
        ELSE IF k = 5 THEN [a |-> -1, b |-> -1, d |-> 1, e |-> 0]
        ELSE IF k = 6 THEN Neg(One)
        ELSE [a |-> 1, b |-> -1, d |-> 1, e |-> 0]

\* the least k with k*k >= n, among the k whose square is an integer of the model
ISqrt(n) == CHOOSE k \in 0..46340 : k * k >= n

\* the root of x = p/(q * Mega^e), where p*q is k*k or 2*k*k
Root(x) ==
    LET n == x.a * x.d
        mantissa == The({IF x.b # 0 THEN Undefined
                         ELSE IF kh[1] * kh[1] = n THEN Rat(kh[1], x.d)
                         ELSE IF 2 * kh[2] * kh[2] = n THEN Norm(0, kh[2], x.d)
                         ELSE Undefined : kh \in {<<ISqrt(n), ISqrt(n \div 2)>>}})
    IN  Mul(mantissa, NormE(1, 0, IF x.e % 2 = 0 THEN 1 ELSE 1000, x.e \div 2))

\* std::sqrt; NaN below zero
Sqrt(x) ==
    The({IF IsNaN(v) \/ SignOf(v) < 0 THEN NaN ELSE IF IsInf(v) THEN v ELSE Root(v) :
            v \in {x}})

\* ------------------------------------------------------------------ vectors

V3(x, y, z) == [x |-> x, y |-> y, z |-> z]

V4(x, y, z, w) == [x |-> x, y |-> y, z |-> z, w |-> w]

\* integer literals, as the tests write them: Vec3(1, 2, 3)
IV3(x, y, z) == V3(Int2F(x), Int2F(y), Int2F(z))

IV4(x, y, z, w) == V4(Int2F(x), Int2F(y), Int2F(z), Int2F(w))

\* operator*(Vec3, float)
Vec3Scale(v, k) == V3(Mul(v.x, k), Mul(v.y, k), Mul(v.z, k))

\* CreatePoint leaving w at 0, as CreateVector does
Vec4CreatePoint_AsVector(v) == V4(v.x, v.y, v.z, Zero)

\* Vec4::CreatePoint
Vec4CreatePoint(v) == V4(v.x, v.y, v.z, One)

\* Vec4::CreateVector
Vec4CreateVector(v) == V4(v.x, v.y, v.z, Zero)

\* Vec4::operator glm::vec4 and Vec4(const glm::vec4&): component i of a glm
\* vector is 0 = x, 1 = y, 2 = z, 3 = w
ToGlm4(v) == [i \in 0..3 |-> IF i = 0 THEN v.x ELSE IF i = 1 THEN v.y ELSE IF i = 2 THEN v.z ELSE v.w]

FromGlm4(c) == V4(c[0], c[1], c[2], c[3])

ToGlm3(v) == [i \in 0..2 |-> IF i = 0 THEN v.x ELSE IF i = 1 THEN v.y ELSE v.z]

\* ------------------------------------------------------------------ Vec2, Vec3, Vec4

\* a Vec2 is a record with the fields x, y; a Vec3 adds z, a Vec4 adds w
V2(x, y) == [x |-> x, y |-> y]

\* the literal 1e-6f of Vec4.cpp
Epsilon == Rat(1, 1000000)

\* std::abs
AbsF(x) == IF SignOf(x) < 0 THEN Neg(x) ELSE x

\* std::acos at the cosines of the multiples of pi/4 and pi/3, in units of pi
Acos(c) ==
    IF IsNaN(c) THEN NaN
    ELSE IF c = One THEN Zero
    ELSE IF c = HalfSqrt2 THEN Rat(1, 4)
    ELSE IF c = Half THEN Rat(1, 3)
    ELSE IF c = Zero THEN Half
    ELSE IF c = Neg(Half) THEN Rat(2, 3)
    ELSE IF c = Neg(HalfSqrt2) THEN Rat(3, 4)
    ELSE IF c = Neg(One) THEN One
    ELSE Undefined

\* std::asin at the sines of the multiples of pi/4 and pi/6, in units of pi;
\* NaN outside [-1, 1]
Asin(v) ==
    IF IsNaN(v) \/ Less(One, AbsF(v)) THEN NaN
    ELSE IF v = Zero THEN Zero
    ELSE IF AbsF(v) = Half THEN Rat(SignOf(v), 6)
    ELSE IF AbsF(v) = HalfSqrt2 THEN Rat(SignOf(v), 4)
    ELSE IF AbsF(v) = One THEN Rat(SignOf(v), 2)
    ELSE Undefined

\* std::atan2(y, x) in the directions that are multiples of pi/4, in units of
\* pi, in (-1, 1]; atan2(0, 0) is 0; the model has one zero, taken as +0
Atan2(y, x) ==
    IF IsNaN(y) \/ IsNaN(x) THEN NaN
    ELSE IF IsZero(y) THEN (IF SignOf(x) < 0 THEN One ELSE Zero)
    ELSE IF IsZero(x) THEN Rat(SignOf(y), 2)
    ELSE IF AbsF(y) = AbsF(x) THEN Rat(SignOf(y) * (IF SignOf(x) > 0 THEN 1 ELSE 3), 4)
    ELSE Undefined

\* how a call ends: with a value, or with an exception (or a failed assertion)
Returned(value) == [err |-> "none", val |-> value]

Thrown(what) == [err |-> what]

\* operator/(const VecN lhs, const float rhs), N = 2, 3, 4
VecDiv(lhs, rhs) ==
    IF IsZero(rhs) THEN Thrown("runtime_error")
    ELSE Returned([c \in DOMAIN lhs |-> Div(lhs[c], rhs)])

\* VecN::operator/=(const float scalar): the receiver's new value
VecDivAssign(self, scalar) == [c \in DOMAIN self |-> Div(self[c], scalar)]

\* operator[] refusing index 0
VecIndex_FromOne(self, index) ==
    LET N == Cardinality(DOMAIN self)
    IN  IF index > 0 /\ index < N
        THEN Returned(<<"x", "y", "z", "w">>[index + 1])
        ELSE Thrown("out_of_range")

\* VecN::operator[](int index): the component the returned reference names
VecIndex(self, index) ==
    LET N == Cardinality(DOMAIN self)
    IN  IF index >= 0 /\ index < N
        THEN Returned(<<"x", "y", "z", "w">>[index + 1])
        ELSE Thrown("out_of_range")

\* VecN::L2Norm: sqrt(x*x + y*y [+ z*z [+ w*w]])
L2Norm(self) ==
    LET xy == Add(Mul(self.x, self.x), Mul(self.y, self.y))
        xyz == IF "z" \in DOMAIN self THEN Add(xy, Mul(self.z, self.z)) ELSE xy
    IN  Sqrt(IF "w" \in DOMAIN self THEN Add(xyz, Mul(self.w, self.w)) ELSE xyz)

\* Vec4::Dot: the x, y and z products only, no a.w * b.w
Vec4Dot(a, b) == Add(Add(Mul(a.x, b.x), Mul(a.y, b.y)), Mul(a.z, b.z))

\* Normalize dividing by whatever the magnitude is
Normalize_Unguarded(self) == VecDiv(self, L2Norm(self))

\* VecN::Normalize
Normalize(self) ==
    LET magnitude == L2Norm(self)
    IN  IF ~IsZero(magnitude) THEN VecDiv(self, magnitude)
        ELSE Returned([c \in DOMAIN self |-> Zero])

\* ToVec3 with the tolerance of ToPoint as its error test
ToVec3_Lenient(self) ==
    IF Less(AbsF(self.w), Epsilon) THEN Thrown("runtime_error")
    ELSE LET invW == Div(One, self.w)
         IN  Returned(V3(Mul(self.x, invW), Mul(self.y, invW), Mul(self.z, invW)))

\* Vec4::ToVec3
ToVec3(self) ==
    IF IsZero(self.w) THEN Thrown("runtime_error")
    ELSE LET invW == Div(One, self.w)
         IN  Returned(V3(Mul(self.x, invW), Mul(self.y, invW), Mul(self.z, invW)))

\* ToPoint dividing whatever w is
ToPoint_AlwaysDivides(self) ==
    LET invW == Div(One, self.w)
    IN  V4(Mul(self.x, invW), Mul(self.y, invW), Mul(self.z, invW), One)

\* Vec4::ToPoint
ToPoint(self) ==
    IF Less(AbsF(self.w), Epsilon) THEN V4(self.x, self.y, self.z, One)
    ELSE LET invW == Div(One, self.w)
         IN  V4(Mul(self.x, invW), Mul(self.y, invW), Mul(self.z, invW), One)

\* ToDirection giving the zero vector only for a magnitude of exactly 0
ToDirection_ExactZero(self) ==
    LET spatialMagnitude ==
            Sqrt(Add(Add(Mul(self.x, self.x), Mul(self.y, self.y)), Mul(self.z, self.z)))
        invMag == Div(One, spatialMagnitude)
    IN  IF IsZero(spatialMagnitude) THEN V4(Zero, Zero, Zero, Zero)
        ELSE V4(Mul(self.x, invMag), Mul(self.y, invMag), Mul(self.z, invMag), Zero)

\* Vec4::ToDirection
ToDirection(self) ==
    LET spatialMagnitude ==
            Sqrt(Add(Add(Mul(self.x, self.x), Mul(self.y, self.y)), Mul(self.z, self.z)))
        invMag == Div(One, spatialMagnitude)
    IN  IF Less(spatialMagnitude, Epsilon) THEN V4(Zero, Zero, Zero, Zero)
        ELSE V4(Mul(self.x, invMag), Mul(self.y, invMag), Mul(self.z, invMag), Zero)

\* Vec4::SpatialAngle, in units of pi; std::min(a, b) is (b < a) ? b : a and
\* std::max(a, b) is (a < b) ? b : a
SpatialAngle(a, b) ==
    LET dotProduct == Add(Add(Mul(a.x, b.x), Mul(a.y, b.y)), Mul(a.z, b.z))
        magA == Sqrt(Add(Add(Mul(a.x, a.x), Mul(a.y, a.y)), Mul(a.z, a.z)))
        magB == Sqrt(Add(Add(Mul(b.x, b.x), Mul(b.y, b.y)), Mul(b.z, b.z)))
        magnitudes == Mul(magA, magB)
        cosineTheta == Div(dotProduct, magnitudes)
        upper == IF Less(cosineTheta, One) THEN cosineTheta ELSE One
        clamped == IF Less(Neg(One), upper) THEN upper ELSE Neg(One)
    IN  IF Less(magnitudes, Epsilon) THEN Zero ELSE Acos(clamped)

\* LerpPoints with t clamped to [0, 1]
LerpPoints_Clamped(a, b, t, ndebug) ==
    LET c == IF Less(t, Zero) THEN Zero ELSE IF Less(One, t) THEN One ELSE t
    IN  IF ~ndebug /\ ~Less(AbsF(Sub(a.w, One)), Epsilon) THEN Thrown("assert")
        ELSE IF ~ndebug /\ ~Less(AbsF(Sub(b.w, One)), Epsilon) THEN Thrown("assert")
        ELSE Returned(V4(Add(a.x, Mul(c, Sub(b.x, a.x))),
                         Add(a.y, Mul(c, Sub(b.y, a.y))),
                         Add(a.z, Mul(c, Sub(b.z, a.z))),
                         One))

\* Vec4::LerpPoints; the asserts are compiled out when NDEBUG is defined
LerpPoints(a, b, t, ndebug) ==
    IF ~ndebug /\ ~Less(AbsF(Sub(a.w, One)), Epsilon) THEN Thrown("assert")
    ELSE IF ~ndebug /\ ~Less(AbsF(Sub(b.w, One)), Epsilon) THEN Thrown("assert")
    ELSE Returned(V4(Add(a.x, Mul(t, Sub(b.x, a.x))),
                     Add(a.y, Mul(t, Sub(b.y, a.y))),
                     Add(a.z, Mul(t, Sub(b.z, a.z))),
                     One))

\* ------------------------------------------------------------------ glm

Idx == 0..3

\* glm::mat4(diagonal)
GlmDiag(k) == [c \in Idx |-> [r \in Idx |-> IF c = r THEN k ELSE Zero]]

ColScale(col, k) == [r \in Idx |-> Mul(col[r], k)]

ColAdd(p, q) == [r \in Idx |-> Add(p[r], q[r])]

\* glm: mat4 * vec4, a linear combination of the columns of m
GlmMulVec(m, v) ==
    ColAdd(ColAdd(ColScale(m[0], v[0]), ColScale(m[1], v[1])),
           ColAdd(ColScale(m[2], v[2]), ColScale(m[3], v[3])))

\* the product taking rows of m2 where it should take columns
GlmMul_RowsByRows(m1, m2) ==
    [c \in Idx |->
        ColAdd(ColAdd(ColAdd(ColScale(m1[0], m2[0][c]), ColScale(m1[1], m2[1][c])),
                      ColScale(m1[2], m2[2][c])),
               ColScale(m1[3], m2[3][c]))]

\* glm: mat4 * mat4, column c of the result is m1 applied to column c of m2
GlmMul(m1, m2) ==
    [c \in Idx |->
        ColAdd(ColAdd(ColAdd(ColScale(m1[0], m2[c][0]), ColScale(m1[1], m2[c][1])),
                      ColScale(m1[2], m2[c][2])),
               ColScale(m1[3], m2[c][3]))]

\* glm::matrixCompMult
GlmCompMult(x, y) == [c \in Idx |-> [r \in Idx |-> Mul(x[c][r], y[c][r])]]

\* glm::transpose
GlmTranspose(m) == [c \in Idx |-> [r \in Idx |-> m[r][c]]]

\* glm::translate(m, v): only column 3 changes
GlmTranslate(m, v) ==
    [m EXCEPT ![3] = ColAdd(ColAdd(ColAdd(ColScale(m[0], v[0]), ColScale(m[1], v[1])),
                                   ColScale(m[2], v[2])),
                            m[3])]

\* glm::scale(m, v): columns 0..2 are scaled, column 3 is kept
GlmScale(m, v) ==
    [c \in Idx |-> IF c = 3 THEN m[3] ELSE ColScale(m[c], v[c])]

\* glm::normalize(vec3): v * inversesqrt(dot(v, v))
GlmNormalize3(v) ==
    LET dot == Add(Add(Mul(v[0], v[0]), Mul(v[1], v[1])), Mul(v[2], v[2]))
        inv == Div(One, Sqrt(dot))
    IN  [i \in 0..2 |-> Mul(v[i], inv)]

\* the 3x3 rotation glm::rotate builds for an angle and an axis
GlmRotation3(angle, v) ==
    The({LET temp == [i \in 0..2 |-> Mul(Sub(One, c), axis[i])]
         IN  [i \in 0..2 |-> [j \in 0..2 |->
                 IF i = j THEN Add(c, Mul(temp[i], axis[j]))
                 ELSE LET k == 3 - i - j
                          \* +s*axis[k] when (i, j, k) is an even permutation of (0, 1, 2)
                          pos == (j = (i + 1) % 3)
                      IN  IF pos THEN Add(Mul(temp[i], axis[j]), Mul(s, axis[k]))
                          ELSE Sub(Mul(temp[i], axis[j]), Mul(s, axis[k]))]] :
            c \in {Cos(angle)}, s \in {Sin(angle)}, axis \in {GlmNormalize3(v)}})

\* glm::rotate(m, angle, v): m * Rotate on columns 0..2, column 3 is kept
GlmRotate(m, angle, v) ==
    The({[c \in Idx |->
            IF c = 3 THEN m[3]
            ELSE ColAdd(ColAdd(ColScale(m[0], rot[c][0]), ColScale(m[1], rot[c][1])),
                        ColScale(m[2], rot[c][2]))] :
            rot \in {GlmRotation3(angle, v)}})

\* determinant of the 3x3 matrix left of m when column c and row r are removed
Minor(m, c, r) ==
    LET cs == [i \in 0..2 |-> IF i < c THEN i ELSE i + 1]
        rs == [i \in 0..2 |-> IF i < r THEN i ELSE i + 1]
        e(i, j) == m[cs[i]][rs[j]]
    IN  Add(Sub(Mul(e(0, 0), Sub(Mul(e(1, 1), e(2, 2)), Mul(e(1, 2), e(2, 1)))),
                Mul(e(0, 1), Sub(Mul(e(1, 0), e(2, 2)), Mul(e(1, 2), e(2, 0))))),
            Mul(e(0, 2), Sub(Mul(e(1, 0), e(2, 1)), Mul(e(1, 1), e(2, 0)))))

Cofactor(m, c, r) == IF (c + r) % 2 = 0 THEN Minor(m, c, r) ELSE Neg(Minor(m, c, r))

\* glm::determinant: expansion along row 0
GlmDeterminant(m) ==
    Add(Add(Mul(m[0][0], Cofactor(m, 0, 0)), Mul(m[1][0], Cofactor(m, 1, 0))),
        Add(Mul(m[2][0], Cofactor(m, 2, 0)), Mul(m[3][0], Cofactor(m, 3, 0))))

\* glm::inverse with the cofactor matrix in place of its transpose, the adjugate
GlmInverse_Cofactors(m) ==
    LET oneOverDeterminant == Div(One, GlmDeterminant(m))
    IN  [c \in Idx |-> [r \in Idx |-> Mul(Cofactor(m, c, r), oneOverDeterminant)]]

\* glm::inverse: the adjugate times 1/determinant; no test of the determinant,
\* a singular matrix gives entries that are Inf or NaN
GlmInverse(m) ==
    LET oneOverDeterminant == Div(One, GlmDeterminant(m))
    IN  [c \in Idx |-> [r \in Idx |-> Mul(Cofactor(m, r, c), oneOverDeterminant)]]

\* glm::quat(vec3 eulerAngles), as the record of its fields x, y, z, w
GlmQuatFromEuler(e) ==
    LET cx == Cos(Mul(e[0], Half))
        cy == Cos(Mul(e[1], Half))
        cz == Cos(Mul(e[2], Half))
        sx == Sin(Mul(e[0], Half))
        sy == Sin(Mul(e[1], Half))
        sz == Sin(Mul(e[2], Half))
    IN  [x |-> Sub(Mul(Mul(sx, cy), cz), Mul(Mul(cx, sy), sz)),
         y |-> Add(Mul(Mul(cx, sy), cz), Mul(Mul(sx, cy), sz)),
         z |-> Sub(Mul(Mul(cx, cy), sz), Mul(Mul(sx, sy), cz)),
         w |-> Add(Mul(Mul(cx, cy), cz), Mul(Mul(sx, sy), sz))]

\* glm::epsilon<float>(): FLT_EPSILON, 2^-23
GlmEpsilon == Rat(1, 8388608)

\* glm::clamp(x, minVal, maxVal): min(max(x, minVal), maxVal)
GlmClamp(x, minVal, maxVal) ==
    IF Less(x, minVal) THEN minVal ELSE IF Less(maxVal, x) THEN maxVal ELSE x

\* glm::pitch(q): atan(y, x), and 2 * atan(q.x, q.w) where both are within epsilon of 0
GlmPitch(q) ==
    LET y == Mul(Two, Add(Mul(q.y, q.z), Mul(q.w, q.x)))
        x == Add(Sub(Sub(Mul(q.w, q.w), Mul(q.x, q.x)), Mul(q.y, q.y)), Mul(q.z, q.z))
    IN  The({IF ~Less(GlmEpsilon, AbsF(yx[1])) /\ ~Less(GlmEpsilon, AbsF(yx[2]))
             THEN Mul(Two, Atan2(q.x, q.w))
             ELSE Atan2(yx[1], yx[2]) : yx \in {<<y, x>>}})

\* glm::yaw(q): asin(clamp(-2 * (q.x * q.z - q.w * q.y), -1, 1))
GlmYaw(q) ==
    Asin(GlmClamp(Mul(Neg(Two), Sub(Mul(q.x, q.z), Mul(q.w, q.y))), Neg(One), One))

\* glm::yaw with no clamp of the argument of asin
GlmYaw_Unclamped(q) == Asin(Mul(Neg(Two), Sub(Mul(q.x, q.z), Mul(q.w, q.y))))

\* glm::roll(q): atan(y, x), 0 where both are within epsilon of 0
GlmRoll(q) ==
    LET y == Mul(Two, Add(Mul(q.x, q.y), Mul(q.w, q.z)))
        x == Sub(Sub(Add(Mul(q.w, q.w), Mul(q.x, q.x)), Mul(q.y, q.y)), Mul(q.z, q.z))
    IN  The({IF ~Less(GlmEpsilon, AbsF(yx[1])) /\ ~Less(GlmEpsilon, AbsF(yx[2]))
             THEN Zero
             ELSE Atan2(yx[1], yx[2]) : yx \in {<<y, x>>}})

\* glm::eulerAngles(q): vec3(pitch(q), yaw(q), roll(q))
GlmEulerAngles(q) ==
    [i \in 0..2 |-> IF i = 0 THEN GlmPitch(q) ELSE IF i = 1 THEN GlmYaw(q) ELSE GlmRoll(q)]

\* ------------------------------------------------------------------ Quat

\* the constructor handing its arguments to glm::quat(w, x, y, z) in its own order
Quat_AsGiven(x, y, z, w) == [x |-> y, y |-> z, z |-> w, w |-> x]

\* Quat::Quat(x, y, z, w): internal_quat(w, x, y, z)
Quat(x, y, z, w) == [x |-> x, y |-> y, z |-> z, w |-> w]

QuatIDENTITY == Quat(Zero, Zero, Zero, One)

\* Quat::FromEulerAngles(const float x, const float y, const float z)
FromEulerAngles3(x, y, z) ==
    GlmQuatFromEuler([i \in 0..2 |-> IF i = 0 THEN x ELSE IF i = 1 THEN y ELSE z])

\* Quat::FromEulerAngles(const Vec3&)
FromEulerAngles(angles) == GlmQuatFromEuler(ToGlm3(angles))

\* Quat::FromEulerAnglesDeg(const Vec3&)
FromEulerAnglesDeg(angles) == FromEulerAngles(Vec3Scale(angles, DEG_TO_RAD))

\* FromEulerAnglesDeg(x, y, z) passing its degrees on as radians
FromEulerAnglesDeg3_Unconverted(x, y, z) == FromEulerAngles3(x, y, z)

\* Quat::FromEulerAnglesDeg(const float x, const float y, const float z)
FromEulerAnglesDeg3(x, y, z) ==
    FromEulerAngles3(Mul(x, DEG_TO_RAD), Mul(y, DEG_TO_RAD), Mul(z, DEG_TO_RAD))

\* Quat::ToEulerAngles: Vec3(glm::eulerAngles(internal_quat))
ToEulerAngles(self) ==
    The({V3(eulerAngles[0], eulerAngles[1], eulerAngles[2]) :
            eulerAngles \in {GlmEulerAngles(self)}})

\* Quat::ToEulerAnglesDeg
ToEulerAnglesDeg(self) == Vec3Scale(ToEulerAngles(self), RAD_TO_DEG)

\* Quat::ToMatrix: the rotation matrix of the quaternion (glm::mat4_cast)
ToMatrix(q) ==
    LET qxx == Mul(q.x, q.x)
        qyy == Mul(q.y, q.y)
        qzz == Mul(q.z, q.z)
        qxz == Mul(q.x, q.z)
        qxy == Mul(q.x, q.y)
        qyz == Mul(q.y, q.z)
        qwx == Mul(q.w, q.x)
        qwy == Mul(q.w, q.y)
        qwz == Mul(q.w, q.z)
        i == GlmDiag(One)
    IN  [i EXCEPT
            ![0][0] = Sub(One, Mul(Two, Add(qyy, qzz))),
            ![0][1] = Mul(Two, Add(qxy, qwz)),
            ![0][2] = Mul(Two, Sub(qxz, qwy)),
            ![1][0] = Mul(Two, Sub(qxy, qwz)),
            ![1][1] = Sub(One, Mul(Two, Add(qxx, qzz))),
            ![1][2] = Mul(Two, Add(qyz, qwx)),
            ![2][0] = Mul(Two, Add(qxz, qwy)),
            ![2][1] = Mul(Two, Sub(qyz, qwx)),
            ![2][2] = Sub(One, Mul(Two, Add(qxx, qyy)))]

\* ------------------------------------------------------------------ Mat4

IDENTITY == GlmDiag(One)

ZERO == GlmDiag(Zero)

NEG_IDENTITY == GlmDiag(Neg(One))

\* operator* with its operands exchanged
MatMul_Swapped(lhs, rhs) == GlmMul(rhs, lhs)

\* operator*(const Mat4&, const Mat4&)
MatMul(lhs, rhs) == GlmMul(lhs, rhs)

\* operator*(Mat4, Vec4) taking the vector as a row: v * M
MatMulVec_RowVector(lhs, rhs) == FromGlm4(GlmMulVec(GlmTranspose(lhs), ToGlm4(rhs)))

\* operator*(const Mat4&, const Vec4&)
MatMulVec(lhs, rhs) == FromGlm4(GlmMulVec(lhs, ToGlm4(rhs)))

\* FromPosition writing row 3 (internal[i][3]) instead of column 3
FromPosition_Row(position) ==
    LET internal == GlmDiag(One)
    IN  [internal EXCEPT ![0][3] = position.x, ![1][3] = position.y, ![2][3] = position.z]

FromPosition(position) ==
    LET internal == GlmDiag(One)
    IN  [internal EXCEPT ![3][0] = position.x, ![3][1] = position.y, ![3][2] = position.z]

FromScale(scale) ==
    LET internal == GlmDiag(One)
    IN  [internal EXCEPT ![0][0] = scale.x, ![1][1] = scale.y, ![2][2] = scale.z]

FromRotation(rotation) == ToMatrix(FromEulerAngles(rotation))

FromRotationDeg(rotationDeg) == ToMatrix(FromEulerAnglesDeg(rotationDeg))

\* WithTranslation putting the translation on the left of the receiver
WithTranslation_Pre(self, displacement) == GlmMul(FromPosition(displacement), self)

WithTranslation(self, displacement) == GlmTranslate(self, ToGlm3(displacement))

WithScale(self, scale) == GlmScale(self, ToGlm3(scale))

\* Mat4::WithRotation(const float angle, const Vec3& axis)
WithRotationAxis(self, angle, axis) == GlmRotate(self, angle, ToGlm3(axis))

\* Mat4::WithRotationDeg(const float angleDeg, const Vec3& axis)
WithRotationDegAxis(self, angleDeg, axis) == WithRotationAxis(self, Mul(angleDeg, DEG_TO_RAD), axis)

\* WithRotation(euler) built from three axis rotations, with no quaternion
WithRotationEuler_Direct(self, eulerAngles) ==
    GlmRotate(GlmRotate(GlmRotate(self, eulerAngles.x, ToGlm3(IV3(1, 0, 0))),
                        eulerAngles.y, ToGlm3(IV3(0, 1, 0))),
              eulerAngles.z, ToGlm3(IV3(0, 0, 1)))

\* Mat4::WithRotation(const Vec3& eulerAngles)
WithRotationEuler(self, eulerAngles) == MatMul(self, ToMatrix(FromEulerAngles(eulerAngles)))

\* Mat4::WithRotationDeg(const Vec3& eulerAnglesDeg)
WithRotationDegEuler(self, eulerAnglesDeg) == MatMul(self, ToMatrix(FromEulerAnglesDeg(eulerAnglesDeg)))

\* Mat4::WithRotation(const Quat& rotation)
WithRotationQuat(self, rotation) == MatMul(self, ToMatrix(rotation))

WithInverse(self) == GlmInverse(self)

WithTranspose(self) == GlmTranspose(self)

\* Hadamard taken for the matrix product
Hadamard_AsProduct(lhs, rhs) == GlmMul(lhs, rhs)

Hadamard(lhs, rhs) == GlmCompMult(lhs, rhs)

\* the coordinate system change matrix X of both projections: Y and Z flipped
CoordChangeX ==
    LET X == GlmDiag(One)
    IN  [X EXCEPT ![1][1] = Neg(One), ![2][2] = Neg(One)]

\* the perspective matrix with the depth terms of a [-1, 1] depth range
PerspectiveMatrix_GL(verticalFov, aspectRatio, nearPlane, farPlane) ==
    LET focalLength == Div(One, Tan(Mul(Mul(DEG_TO_RAD, verticalFov), Half)))
        A == Div(Add(farPlane, nearPlane), Sub(farPlane, nearPlane))
        B == Div(Mul(Neg(Two), Mul(farPlane, nearPlane)), Sub(farPlane, nearPlane))
        zero == GlmDiag(Zero)
    IN  [zero EXCEPT ![0][0] = Div(focalLength, aspectRatio), ![1][1] = focalLength,
                     ![2][2] = A, ![2][3] = One, ![3][2] = B]

\* the right-handed perspective matrix FromPerspective builds before the flip
PerspectiveMatrix(verticalFov, aspectRatio, nearPlane, farPlane) ==
    LET vFovRads == Mul(DEG_TO_RAD, verticalFov)
        focalLength == Div(One, Tan(Mul(vFovRads, Half)))
        x == Div(focalLength, aspectRatio)
        y == focalLength
        A == Div(farPlane, Sub(farPlane, nearPlane))
        B == Mul(Neg(nearPlane), A)
        zero == GlmDiag(Zero)
    IN  [zero EXCEPT ![0][0] = x, ![1][1] = y, ![2][2] = A, ![2][3] = One, ![3][2] = B]

FromPerspective(verticalFov, aspectRatio, nearPlane, farPlane) ==
    GlmMul(PerspectiveMatrix(verticalFov, aspectRatio, nearPlane, farPlane), CoordChangeX)

\* the orthographic matrix FromOrthographic builds before the flip
OrthoMatrix(left, right, bottom, top, nearPlane, farPlane) ==
    LET scaleX == Div(Two, Sub(right, left))
        scaleY == Div(Two, Sub(top, bottom))
        scaleZ == Div(One, Sub(farPlane, nearPlane))
        transX == Div(Neg(Add(right, left)), Sub(right, left))
        transY == Div(Neg(Add(top, bottom)), Sub(top, bottom))
        transZ == Div(Neg(nearPlane), Sub(farPlane, nearPlane))
        zero == GlmDiag(Zero)
    IN  [zero EXCEPT ![0][0] = scaleX, ![1][1] = scaleY, ![2][2] = scaleZ,
                     ![3][0] = transX, ![3][1] = transY, ![3][2] = transZ,
                     ![3][3] = One]

FromOrthographic(left, right, bottom, top, nearPlane, farPlane) ==
    GlmMul(OrthoMatrix(left, right, bottom, top, nearPlane, farPlane), CoordChangeX)

\* Mat4::FromOrthographic(width, height, nearPlane, farPlane)
FromOrthographicCentered(width, height, nearPlane, farPlane) ==
    FromOrthographic(Div(Neg(width), Two), Div(width, Two),
                     Div(Neg(height), Two), Div(height, Two), nearPlane, farPlane)

\* ------------------------------------------------------------------ state

VARIABLES
    m,       \* the receiver: a Mat4 object of the caller (its internal_mat)
    ret,     \* the Mat4 the last call returned
    retRef,  \* "this" when the last call returned a reference to the receiver
    vret,    \* the Vec4 the last call returned
    op,      \* the last call
    arg,     \* its arguments
    n,       \* the number of calls so far
    err,     \* the exception the last call threw, "none" when it returned
    vec,     \* the receiver of a vector call: a Vec2, Vec3 or Vec4 object of the caller
    fret,    \* the float the last call returned
    qret,    \* the Quat the last call returned
    th       \* threads, each with a Mat4 object of its own, and the static constants

vars == <<m, ret, retRef, vret, op, arg, n, err, vec, fret, qret, th>>

\* ------------------------------------------------------------------ bounds

MaxCalls == 1

MaxCoord == 1

MaxAngle == 2

\* ------------------------------------------------------------------ inputs

Vec3s == {IV3(x, 2, -3) : x \in 0..MaxCoord}

\* rotation axes: Vec3::DOWN, one that is not normalized, Vec3::BACKWARD
Axis(k) == IF k % 3 = 1 THEN IV3(0, -1, 0) ELSE IF k % 3 = 2 THEN IV3(2, 0, 0) ELSE IV3(0, 0, 1)

\* an angle and an axis: k * 45 degrees about Axis(k)
AxisAngleRads == {<<Rat(k, 4), Axis(k)>> : k \in 1..MaxAngle}

AxisAngleDegs == {<<Int2F(45 * k), Axis(k)>> : k \in 1..MaxAngle}

\* Euler angles: multiples of 90 degrees; test/main.cpp: 180.0f * Vec3::UP
EulerRads == {V3(Half, Rat(j, 2), Rat(1 - j, 2)) : j \in 1..MaxAngle} \cup {V3(Zero, One, Zero)}

EulerDegs == {IV3(90, 90 * j, 90 * (1 - j)) : j \in 1..MaxAngle} \cup {IV3(0, 180, 0)}

\* test/main.cpp: triRot = 180.0f * Vec3::UP, and no rotation at all
ModelRots == {IV3(0, 180, 0), IV3(0, 0, 0), IV3(90, 90, 0)}

\* test/main.cpp: triScale = Vec3::ONE, and a scale that is not uniform
ModelScales == {IV3(1, 1, 1), IV3(2, -1, 3)}

\* a unit quaternion (90 degrees about X) and one that is not normalized
Quats == {Quat(HalfSqrt2, Zero, Zero, HalfSqrt2), Quat(One, Two, Zero, One)}

\* a matrix with no zero entry off the diagonal and determinant 10
Dense == [c \in Idx |-> [r \in Idx |->
            Int2F(IF c = r THEN 2 ELSE IF c < r THEN 1 ELSE c - r - 2)]]

Mats == {IDENTITY, Dense}

\* Mat4(const glm::mat4&) constructs a Mat4 from any matrix
Receivers == {IDENTITY, Dense}

\* a point, a direction and a vector with another w
Vec4s == {IV4(1, -1, 2, 1), IV4(1, 2, 3, 0), IV4(-1, 2, 0, 2)}

\* test/main.cpp: triangle vertices, Vec4::CreatePoint(x, y, z)
Points == {IV4(1, -1, 2, 1), IV4(0, 3, 0, 1)}

NoVec == IV4(0, 0, 0, 0)

NoArg == [none |-> TRUE]

\* no thread is running
NoThreads == <<>>

Init ==
    /\ m \in Receivers
    /\ ret = IDENTITY
    /\ retRef = "value"
    /\ vret = NoVec
    /\ op = "none"
    /\ arg = NoArg
    /\ n = 0
    /\ err = "none"
    /\ vec = NoVec
    /\ fret = Zero
    /\ qret = QuatIDENTITY
    /\ th = NoThreads

\* a call that overwrites the receiver with value and returns *this
Mutate(name, a, value) ==
    /\ n < MaxCalls
    /\ n' = n + 1
    /\ op' = name
    /\ arg' = a
    /\ m' = value
    /\ ret' = value
    /\ retRef' = "this"
    /\ UNCHANGED <<vret, err, vec, fret, qret, th>>

\* a const or static call that returns the Mat4 value by value
Return(name, a, value) ==
    /\ n < MaxCalls
    /\ n' = n + 1
    /\ op' = name
    /\ arg' = a
    /\ ret' = value
    /\ retRef' = "value"
    /\ UNCHANGED <<m, vret, err, vec, fret, qret, th>>

\* a const or static call that returns the Vec4 value by value
ReturnVec(name, a, value) ==
    /\ n < MaxCalls
    /\ n' = n + 1
    /\ op' = name
    /\ arg' = a
    /\ vret' = value
    /\ UNCHANGED <<m, ret, retRef, err, vec, fret, qret, th>>

\* ------------------------------------------------------------------ calls

\* Mat4::operator*=
MulAssign(other) == Mutate("operator*=", [other |-> other], GlmMul(m, other))

\* Translate as a copy that drifted: the translation goes on the left
Translate_Drifted(displacement) ==
    Mutate("Translate", [v |-> displacement], GlmMul(FromPosition(displacement), m))

Translate(displacement) ==
    Mutate("Translate", [v |-> displacement], WithTranslation(m, displacement))

Scale(scale) == Mutate("Scale", [v |-> scale], WithScale(m, scale))

\* Mat4::Rotate(const float angle, const Vec3& axis)
RotateAxis(angle, axis) ==
    Mutate("Rotate(angle,axis)", [angle |-> angle, axis |-> axis], WithRotationAxis(m, angle, axis))

\* Mat4::RotateDeg(const float angleDeg, const Vec3& axis)
RotateDegAxis(angleDeg, axis) ==
    Mutate("RotateDeg(angle,axis)", [angle |-> angleDeg, axis |-> axis],
           WithRotationDegAxis(m, angleDeg, axis))

\* Mat4::Rotate(const Vec3& eulerAngles)
RotateEuler(eulerAngles) == Mutate("Rotate(euler)", [e |-> eulerAngles], WithRotationEuler(m, eulerAngles))

\* Mat4::RotateDeg(const Vec3& eulerAnglesDeg)
RotateDegEuler(eulerAnglesDeg) ==
    Mutate("RotateDeg(euler)", [e |-> eulerAnglesDeg], WithRotationDegEuler(m, eulerAnglesDeg))

\* Mat4::Rotate(const Quat& quat)
RotateQuat(quat) == Mutate("Rotate(quat)", [q |-> quat], WithRotationQuat(m, quat))

Inverse == Mutate("Inverse", NoArg, WithInverse(m))

Transpose == Mutate("Transpose", NoArg, WithTranspose(m))

WithTranslationCall(displacement) ==
    Return("WithTranslation", [v |-> displacement], WithTranslation(m, displacement))

\* WithScale overwriting its receiver
WithScaleCall_Overwrites(scale) == Mutate("WithScale", [v |-> scale], WithScale(m, scale))

WithScaleCall(scale) == Return("WithScale", [v |-> scale], WithScale(m, scale))

WithRotationAxisCall(angle, axis) ==
    Return("WithRotation(angle,axis)", [angle |-> angle, axis |-> axis], WithRotationAxis(m, angle, axis))

WithRotationDegAxisCall(angleDeg, axis) ==
    Return("WithRotationDeg(angle,axis)", [angle |-> angleDeg, axis |-> axis],
           WithRotationDegAxis(m, angleDeg, axis))

WithRotationEulerCall(eulerAngles) ==
    Return("WithRotation(euler)", [e |-> eulerAngles], WithRotationEuler(m, eulerAngles))

WithRotationDegEulerCall(eulerAnglesDeg) ==
    Return("WithRotationDeg(euler)", [e |-> eulerAnglesDeg], WithRotationDegEuler(m, eulerAnglesDeg))

WithRotationQuatCall(quat) == Return("WithRotation(quat)", [q |-> quat], WithRotationQuat(m, quat))

WithInverseCall == Return("WithInverse", NoArg, WithInverse(m))

WithTransposeCall == Return("WithTranspose", NoArg, WithTranspose(m))

\* Mat4::Hadamard(receiver, other)
HadamardCall(other) == Return("Hadamard", [other |-> other], Hadamard(m, other))

\* receiver * other
MulCall(other) == Return("operator*", [other |-> other], MatMul(m, other))

\* receiver * vector
MulVecCall(v) == ReturnVec("operator*(Vec4)", [p |-> v], MatMulVec(m, v))

FromPositionCall(position) == Return("FromPosition", [v |-> position], FromPosition(position))

FromScaleCall(scale) == Return("FromScale", [v |-> scale], FromScale(scale))

FromRotationCall(rotation) == Return("FromRotation", [e |-> rotation], FromRotation(rotation))

FromRotationDegCall(rotationDeg) ==
    Return("FromRotationDeg", [e |-> rotationDeg], FromRotationDeg(rotationDeg))

\* test/main.cpp: the triangle's model matrix applied to one of its vertices
ModelMatrix(triPos, triRot, triScale) ==
    LET triPosMat == FromPosition(triPos)
        triRotMat == FromRotationDeg(triRot)
        triScaleMat == FromScale(triScale)
    IN  MatMul(MatMul(triPosMat, triRotMat), triScaleMat)

ModelCall(triPos, triRot, triScale, triV) ==
    /\ n < MaxCalls
    /\ n' = n + 1
    /\ op' = "Model"
    /\ arg' = [e |-> triRot, t |-> triPos, s |-> triScale, p |-> triV]
    /\ ret' = ModelMatrix(triPos, triRot, triScale)
    /\ retRef' = "value"
    /\ vret' = MatMulVec(ret', triV)
    /\ UNCHANGED <<m, err, vec, fret, qret, th>>

Next ==
    \/ \E other \in Mats : MulAssign(other)
    \/ \E v \in Vec3s : Translate(v)
    \/ \E v \in Vec3s : Scale(v)
    \/ \E aa \in AxisAngleRads : RotateAxis(aa[1], aa[2])
    \/ \E aa \in AxisAngleDegs : RotateDegAxis(aa[1], aa[2])
    \/ \E e \in EulerRads : RotateEuler(e)
    \/ \E e \in EulerDegs : RotateDegEuler(e)
    \/ \E q \in Quats : RotateQuat(q)
    \/ Inverse
    \/ Transpose
    \/ \E v \in Vec3s : WithTranslationCall(v)
    \/ \E v \in Vec3s : WithScaleCall(v)
    \/ \E aa \in AxisAngleRads : WithRotationAxisCall(aa[1], aa[2])
    \/ \E aa \in AxisAngleDegs : WithRotationDegAxisCall(aa[1], aa[2])
    \/ \E e \in EulerRads : WithRotationEulerCall(e)
    \/ \E e \in EulerDegs : WithRotationDegEulerCall(e)
    \/ \E q \in Quats : WithRotationQuatCall(q)
    \/ WithInverseCall
    \/ WithTransposeCall
    \/ \E other \in Mats : HadamardCall(other)
    \/ \E other \in Mats : MulCall(other)
    \/ \E v \in Vec4s : MulVecCall(v)
    \/ \E v \in Vec3s : FromPositionCall(v)
    \/ \E v \in Vec3s : FromScaleCall(v)
    \/ \E e \in EulerRads : FromRotationCall(e)
    \/ \E e \in EulerDegs : FromRotationDegCall(e)
    \/ \E t \in Vec3s, e \in ModelRots, s \in ModelScales, p \in Points : ModelCall(t, e, s, p)

Spec == Init /\ [][Next]_vars

\* ------------------------------------------------------------------ projections

MaxFov == 2

MaxPlane == 2

MaxSide == 1

\* vertical fields of view in degrees; 0 is malformed
Fovs == {Int2F(45 * k) : k \in 0..MaxFov}

\* aspect ratios; 0 is malformed
Aspects == {Zero, One, Rat(16, 9)}

\* near and far planes of a perspective; the spec's scenario has 0.1 and 100
NearPlanes == {Int2F(k) : k \in 0..MaxPlane} \cup {Rat(1, 10)}

FarPlanes == {Int2F(k) : k \in 0..MaxPlane} \cup {Rat(1, 10), Int2F(100)}

\* the sides of an orthographic view volume, near and far planes included
Lows == {Int2F(-1), Zero}

Highs == {Int2F(k) : k \in 0..MaxSide}

OrthoNears == {Int2F(k) : k \in 0..MaxPlane}

OrthoFars == {Int2F(k) : k \in 1..MaxPlane}

\* widths and heights of a centered orthographic view volume
Extents == {Int2F(2 * k) : k \in 0..MaxSide}

\* where in the view volume a point lies: near/left/bottom, middle, far/right/top
Fractions == {Zero, Half, One}

ProjOps == {"FromPerspective", "FromOrthographic", "FromOrthographic(w,h)"}

InitProj ==
    /\ m = IDENTITY
    /\ ret = IDENTITY
    /\ retRef = "value"
    /\ vret = NoVec
    /\ op = "none"
    /\ arg = NoArg
    /\ n = 0
    /\ err = "none"
    /\ vec = NoVec
    /\ fret = Zero
    /\ qret = QuatIDENTITY
    /\ th = NoThreads

\* a static call that builds a projection: it validates nothing and throws nothing
Build(name, a, value) ==
    /\ op = "none"
    /\ op' = name
    /\ arg' = a
    /\ ret' = value
    /\ retRef' = "value"
    /\ n' = n + 1
    /\ UNCHANGED <<m, vret, err, vec, fret, qret, th>>

FromPerspectiveCall(verticalFov, aspectRatio, nearPlane, farPlane) ==
    Build("FromPerspective",
          [fov |-> verticalFov, aspect |-> aspectRatio, near |-> nearPlane, far |-> farPlane],
          FromPerspective(verticalFov, aspectRatio, nearPlane, farPlane))

FromOrthographicCall(left, right, bottom, top, nearPlane, farPlane) ==
    Build("FromOrthographic",
          [left |-> left, right |-> right, bottom |-> bottom, top |-> top,
           near |-> nearPlane, far |-> farPlane],
          FromOrthographic(left, right, bottom, top, nearPlane, farPlane))

FromOrthographicCenteredCall(width, height, nearPlane, farPlane) ==
    Build("FromOrthographic(w,h)",
          [width |-> width, height |-> height, near |-> nearPlane, far |-> farPlane],
          FromOrthographicCentered(width, height, nearPlane, farPlane))

\* the projection just built applied to the vector p: operator*(Mat4, Vec4)
Project(name, p) ==
    /\ op' = name
    /\ arg' = [p |-> p, kind |-> op, proj |-> arg]
    /\ vret' = MatMulVec(ret, p)
    /\ n' = n + 1
    /\ UNCHANGED <<m, ret, retRef, err, vec, fret, qret, th>>

\* the camera-space point at the fraction f of the way from -near to -far
FrustumPoint(a, f) == V4(Int2F(3), Int2F(-2), Neg(Add(a.near, Mul(f, Sub(a.far, a.near)))), One)

\* the point of the view volume at the fraction f along each of its three axes
BoxPoint(a, f) ==
    V4(Add(a.left, Mul(f, Sub(a.right, a.left))),
       Add(a.bottom, Mul(f, Sub(a.top, a.bottom))),
       Neg(Add(a.near, Mul(f, Sub(a.far, a.near)))),
       One)

ProjectFrustumPoint(f) ==
    /\ op = "FromPerspective"
    /\ Project("ProjectFrustumPoint", FrustumPoint(arg, f))

ProjectBoxPoint(f) ==
    /\ op = "FromOrthographic"
    /\ Project("ProjectBoxPoint", BoxPoint(arg, f))

ProjectVec(p) ==
    /\ op \in ProjOps
    /\ Project("ProjectVec", p)

NextProj ==
    \/ \E fov \in Fovs, aspect \in Aspects, near \in NearPlanes, far \in FarPlanes :
          FromPerspectiveCall(fov, aspect, near, far)
    \/ \E left \in Lows, right \in Highs, bottom \in Lows, top \in Highs,
          near \in OrthoNears, far \in OrthoFars :
          FromOrthographicCall(left, right, bottom, top, near, far)
    \/ \E width \in Extents, height \in Extents, near \in OrthoNears, far \in OrthoFars :
          FromOrthographicCenteredCall(width, height, near, far)
    \/ \E f \in Fractions : ProjectFrustumPoint(f)
    \/ \E f \in Fractions : ProjectBoxPoint(f)
    \/ \E p \in Vec4s : ProjectVec(p)

SpecProj == InitProj /\ [][NextProj]_vars

\* ------------------------------------------------------------------ vector calls

MaxScalar == 2

MaxIndex == 4

MaxT == 2

\* a value below the epsilon: 5e-7
Tiny == Rat(1, 2000000)

\* receivers of the three vector classes: zero vectors, ordinary ones, w at zero,
\* below, at and above the epsilon, negative w, an infinite and a NaN component
Vec2Receivers == {V2(Zero, Zero), V2(Int2F(3), Int2F(-4)), V2(One, One)}

Vec3Receivers == {V3(Zero, Zero, Zero), V3(Two, Int2F(-4), Int2F(4)), V3(One, Zero, One)}

Vec4Receivers ==
    {V4(Zero, Zero, Zero, Zero), V4(Zero, Zero, Zero, One), V4(Int2F(3), Int2F(4), Zero, Zero),
     V4(Tiny, Zero, Zero, Tiny), V4(Tiny, Zero, Zero, Neg(Tiny)),
     V4(Epsilon, Zero, Zero, Epsilon), V4(Int2F(4), Int2F(-4), Zero, Two),
     V4(Zero, Int2F(-3), Zero, Int2F(-4)), V4(PosInf, Zero, Zero, One), V4(One, Zero, Zero, NaN)}

VecReceivers == Vec2Receivers \cup Vec3Receivers \cup Vec4Receivers

Scalars == {Int2F(k) : k \in 0..MaxScalar} \cup {Rat(-1, 2)}

Indices == (0 - MaxIndex)..MaxIndex

\* directions a multiple of 45 degrees apart, at magnitudes from 5e-7 to 3
Directions == {IV3(1, 0, 0), IV3(0, 1, 0), IV3(-1, 1, 0)}

Magnitudes == {One, Int2F(3), Rat(1, 1000), Rat(1, 2000), Tiny}

AngleArgs ==
    {Vec4CreateVector(Vec3Scale(d, k)) : d \in Directions, k \in Magnitudes}
        \cup {V4(PosInf, Zero, Zero, Zero), V4(Zero, Zero, Zero, One)}

\* w of the arguments of LerpPoints: 1, within the epsilon of 1, at it, and far from it
LerpWs == {One, Add(One, Tiny), Sub(One, Tiny), Add(One, Epsilon), Zero, Two}

LerpFrom == {V4(Zero, One, Zero, w) : w \in LerpWs}

LerpTo == {V4(Two, Int2F(-4), Int2F(6), w) : w \in LerpWs}

Ts == {Int2F(k) : k \in -1..MaxT} \cup {Half}

InitVec ==
    /\ m = IDENTITY
    /\ ret = IDENTITY
    /\ retRef = "value"
    /\ vret = NoVec
    /\ op = "none"
    /\ arg = NoArg
    /\ n = 0
    /\ err = "none"
    /\ vec \in VecReceivers
    /\ fret = Zero
    /\ qret = QuatIDENTITY
    /\ th = NoThreads

\* a call on the receiver (or a static call) that returns a vector or throws
VecCall(name, a, outcome) ==
    /\ op = "none"
    /\ op' = name
    /\ arg' = a
    /\ n' = n + 1
    /\ err' = outcome.err
    /\ vret' = IF outcome.err = "none" THEN outcome.val ELSE NoVec
    /\ UNCHANGED <<m, ret, retRef, vec, fret, qret, th>>

ToPointCall == "w" \in DOMAIN vec /\ VecCall("ToPoint", NoArg, Returned(ToPoint(vec)))

ToVec3Call == "w" \in DOMAIN vec /\ VecCall("ToVec3", NoArg, ToVec3(vec))

ToDirectionCall == "w" \in DOMAIN vec /\ VecCall("ToDirection", NoArg, Returned(ToDirection(vec)))

NormalizeCall == VecCall("Normalize", NoArg, Normalize(vec))

\* receiver / scalar
DivCall(scalar) == VecCall("operator/", [s |-> scalar], VecDiv(vec, scalar))

\* receiver /= scalar: no check, the quotient is stored and *this returned
DivAssignCall(scalar) ==
    /\ op = "none"
    /\ op' = "operator/="
    /\ arg' = [s |-> scalar]
    /\ n' = n + 1
    /\ vec' = VecDivAssign(vec, scalar)
    /\ vret' = vec'
    /\ err' = "none"
    /\ UNCHANGED <<m, ret, retRef, fret, qret, th>>

\* receiver[index], read (fret) and, when the caller assigns through the
\* returned reference, written: receiver[index] = value
IndexCall(index, write, value) ==
    LET outcome == VecIndex(vec, index)
    IN  /\ op = "none"
        /\ op' = "operator[]"
        /\ arg' = [value |-> value, index |-> index, write |-> write]
        /\ n' = n + 1
        /\ err' = outcome.err
        /\ fret' = IF outcome.err = "none" THEN vec[outcome.val] ELSE fret
        /\ vec' = IF outcome.err = "none" /\ write THEN [vec EXCEPT ![outcome.val] = value]
                  ELSE vec
        /\ UNCHANGED <<m, ret, retRef, vret, qret, th>>

SpatialAngleCall(a, b) ==
    /\ op = "none"
    /\ op' = "SpatialAngle"
    /\ arg' = [a |-> a, b |-> b]
    /\ n' = n + 1
    /\ fret' = SpatialAngle(a, b)
    /\ UNCHANGED <<m, ret, retRef, vret, err, vec, qret, th>>

LerpPointsCall(a, b, t, ndebug) ==
    VecCall("LerpPoints", [a |-> a, b |-> b, t |-> t, ndebug |-> ndebug], LerpPoints(a, b, t, ndebug))

CreatePointCall(p) == VecCall("CreatePoint", [p |-> p], Returned(Vec4CreatePoint(p)))

CreateVectorCall(p) == VecCall("CreateVector", [p |-> p], Returned(Vec4CreateVector(p)))

\* Vec4::Dot(receiver, b)
DotCall(b) ==
    /\ "w" \in DOMAIN vec
    /\ op = "none"
    /\ op' = "Dot"
    /\ arg' = [a |-> vec, b |-> b]
    /\ n' = n + 1
    /\ fret' = Vec4Dot(vec, b)
    /\ UNCHANGED <<m, ret, retRef, vret, err, vec, qret, th>>

NextVec ==
    \/ ToPointCall
    \/ ToVec3Call
    \/ ToDirectionCall
    \/ NormalizeCall
    \/ \E scalar \in Scalars : DivCall(scalar)
    \/ \E scalar \in Scalars : DivAssignCall(scalar)
    \/ \E index \in Indices, write \in BOOLEAN : IndexCall(index, write, Int2F(7))
    \/ \E a \in AngleArgs, b \in AngleArgs : SpatialAngleCall(a, b)
    \/ \E a \in LerpFrom, b \in LerpTo, t \in Ts, ndebug \in BOOLEAN : LerpPointsCall(a, b, t, ndebug)
    \/ \E p \in Vec3s \cup Vec3Receivers : CreatePointCall(p)
    \/ \E p \in Vec3s \cup Vec3Receivers : CreateVectorCall(p)
    \/ \E b \in Vec4Receivers : DotCall(b)

SpecVec == InitVec /\ [][NextVec]_vars

\* ------------------------------------------------------------------ inverses

\* largest off-diagonal entry of a shear
MaxShear == 2

\* the identity with entry k in column c, row r (c # r): determinant 1
Shear(c, r, k) == [IDENTITY EXCEPT ![c][r] = Int2F(k)]

Shears ==
    {Shear(cr[1], cr[2], k) : cr \in {p \in Idx \X Idx : p[1] # p[2]},
                              k \in (0 - MaxShear)..MaxShear} \ {IDENTITY}

\* scale factors that are powers of two, so that 1/determinant is exact
InvScales == {IV3(2, -1, 4), V3(Half, One, Neg(Two)), IV3(1, 1, 1)}

\* invertible matrices whose inverse glm::inverse computes without rounding:
\* integer matrices of determinant 1 or -1, translations, scales, and products
InvReceivers ==
    Shears
    \cup {FromPosition(v) : v \in Vec3s}
    \cup {FromScale(s) : s \in InvScales}
    \cup {MatMul(FromPosition(v), FromScale(s)) : v \in Vec3s, s \in InvScales}
    \cup {MatMul(Shear(1, 0, 2), MatMul(Shear(0, 2, -1), FromScale(s))) : s \in InvScales}
    \cup {NEG_IDENTITY}

InitInv ==
    /\ m \in InvReceivers
    /\ ret = IDENTITY
    /\ retRef = "value"
    /\ vret = NoVec
    /\ op = "none"
    /\ arg = NoArg
    /\ n = 0
    /\ err = "none"
    /\ vec = NoVec
    /\ fret = Zero
    /\ qret = QuatIDENTITY
    /\ th = NoThreads

NextInv ==
    \/ Inverse
    \/ WithInverseCall

SpecInv == InitInv /\ [][NextInv]_vars

\* scale factors with a zero among them: FromScale of these has determinant 0
ZeroScales == {IV3(0, 1, 1), IV3(2, 0, 3), IV3(1, 1, 0), IV3(0, 0, 0)}

\* singular matrices: Mat4::ZERO, scales with a zero factor, and their products
\* with shears
SingReceivers ==
    {ZERO}
    \cup {FromScale(z) : z \in ZeroScales}
    \cup {MatMul(sh, FromScale(z)) : sh \in Shears, z \in ZeroScales}

InitSing ==
    /\ m \in SingReceivers
    /\ ret = IDENTITY
    /\ retRef = "value"
    /\ vret = NoVec
    /\ op = "none"
    /\ arg = NoArg
    /\ n = 0
    /\ err = "none"
    /\ vec = NoVec
    /\ fret = Zero
    /\ qret = QuatIDENTITY
    /\ th = NoThreads

SpecSing == InitSing /\ [][NextInv]_vars

\* ------------------------------------------------------------------ chains

\* the longest chain of calls in one expression; test/main.cpp chains three
MaxChain == 3

\* the matrix a chain starts from: Mat4::IDENTITY as in test/main.cpp, a
\* translation, and a matrix whose last row is not (0, 0, 0, 1)
ChainStarts == {IDENTITY, FromPosition(IV3(1, 2, -3)), Shear(0, 3, 1)}

ChainTranslations == {IV3(3, 0, -1)}

\* test/main.cpp: WithScale(Vec3(1.0f, 2.0f, 3.0f))
ChainScales == {IV3(1, 2, 3)}

\* 90 degrees about X
ChainQuats == {Quat(HalfSqrt2, Zero, Zero, HalfSqrt2)}

\* right operands of operator*: test/main.cpp multiplies by the matrices of
\* FromPosition, FromRotationDeg and FromScale
ChainOperands == {FromPosition(IV3(0, 1, 2)), FromRotationDeg(IV3(0, 90, 0)), FromScale(IV3(2, -1, 3))}

InitChain ==
    /\ m \in ChainStarts
    /\ ret = m
    /\ retRef = "value"
    /\ vret = NoVec
    /\ op = "none"
    /\ arg = <<>>
    /\ n = 0
    /\ err = "none"
    /\ vec = NoVec
    /\ fret = Zero
    /\ qret = QuatIDENTITY
    /\ th = NoThreads

\* one more call on the temporary the expression has produced so far: ret is
\* the value of m.call1(..).call2(..)..., arg the calls in order
Chain(call, value) ==
    /\ n < MaxChain
    /\ op # "operator*(Vec4)"
    /\ n' = n + 1
    /\ op' = call.name
    /\ arg' = Append(arg, call)
    /\ ret' = value
    /\ UNCHANGED <<m, retRef, vret, err, vec, fret, qret, th>>

ChainWithTranslation(v) == Chain([v |-> v, name |-> "WithTranslation"], WithTranslation(ret, v))

ChainWithScale(v) == Chain([v |-> v, name |-> "WithScale"], WithScale(ret, v))

ChainWithRotation(q) == Chain([q |-> q, name |-> "WithRotation"], WithRotationQuat(ret, q))

ChainMul(other) == Chain([name |-> "operator*", other |-> other], MatMul(ret, other))

\* (the expression so far) * vector: the end of the expression
ChainMulVec(v) ==
    /\ op # "operator*(Vec4)"
    /\ op' = "operator*(Vec4)"
    /\ arg' = Append(arg, [p |-> v, name |-> "operator*(Vec4)"])
    /\ vret' = MatMulVec(ret, v)
    /\ UNCHANGED <<m, ret, retRef, n, err, vec, fret, qret, th>>

NextChain ==
    \/ \E v \in ChainTranslations : ChainWithTranslation(v)
    \/ \E v \in ChainScales : ChainWithScale(v)
    \/ \E q \in ChainQuats : ChainWithRotation(q)
    \/ \E other \in ChainOperands : ChainMul(other)
    \/ \E v \in Vec4s : ChainMulVec(v)

SpecChain == InitChain /\ [][NextChain]_vars

\* ------------------------------------------------------------------ quaternions

\* the largest Euler angle, in quarter turns
MaxTurn == 2

\* Euler angles in degrees, multiples of 90 from -90 up
TurnDegs == {Int2F(90 * k) : k \in -1..MaxTurn}

TurnRads == {Rat(k, 2) : k \in -1..MaxTurn}

\* arguments (x, y, z, w) of the constructor: the identity, quarter turns about
\* X and Z, a third of a turn about (1, 1, 1), some that are not normalized
CtorArgs ==
    {<<Zero, Zero, Zero, One>>, <<HalfSqrt2, Zero, Zero, HalfSqrt2>>,
     <<Zero, Zero, Neg(HalfSqrt2), HalfSqrt2>>, <<Half, Half, Half, Half>>,
     <<One, Two, Zero, One>>, <<Int2F(3), Int2F(-4), Int2F(5), Two>>}

\* receivers of ToEulerAngles: unit quaternions, and two that are not normalized
EulerReceivers ==
    {Quat(Zero, Zero, Zero, One), Quat(HalfSqrt2, Zero, Zero, HalfSqrt2),
     Quat(Zero, HalfSqrt2, Zero, HalfSqrt2), Quat(Zero, Zero, Neg(HalfSqrt2), HalfSqrt2),
     Quat(Half, Half, Half, Half), Quat(Zero, One, Zero, Zero),
     Quat(Zero, One, Zero, One), Quat(Zero, Zero, Zero, Two)}

InitQuat ==
    /\ m \in Receivers
    /\ ret = IDENTITY
    /\ retRef = "value"
    /\ vret = NoVec
    /\ op = "none"
    /\ arg = NoArg
    /\ n = 0
    /\ err = "none"
    /\ vec = NoVec
    /\ fret = Zero
    /\ qret = QuatIDENTITY
    /\ th = NoThreads

\* a constructor or static call that returns a Quat
QuatCall(name, a, value) ==
    /\ op = "none"
    /\ op' = name
    /\ arg' = a
    /\ n' = n + 1
    /\ qret' = value
    /\ UNCHANGED <<m, ret, retRef, vret, err, vec, fret, th>>

\* Quat(x, y, z, w)
QuatCtorCall(x, y, z, w) == QuatCall("Quat", [x |-> x, y |-> y, z |-> z, w |-> w], Quat(x, y, z, w))

FromEulerAngles3Call(x, y, z) ==
    QuatCall("FromEulerAngles(x,y,z)", [x |-> x, y |-> y, z |-> z], FromEulerAngles3(x, y, z))

FromEulerAnglesCall(angles) == QuatCall("FromEulerAngles(Vec3)", [e |-> angles], FromEulerAngles(angles))

FromEulerAnglesDeg3Call(x, y, z) ==
    QuatCall("FromEulerAnglesDeg(x,y,z)", [x |-> x, y |-> y, z |-> z], FromEulerAnglesDeg3(x, y, z))

FromEulerAnglesDegCall(angles) ==
    QuatCall("FromEulerAnglesDeg(Vec3)", [e |-> angles], FromEulerAnglesDeg(angles))

\* a call on the quaternion q that returns a Vec3
EulerCall(name, q, value) ==
    /\ op = "none"
    /\ op' = name
    /\ arg' = [q |-> q]
    /\ n' = n + 1
    /\ vret' = value
    /\ UNCHANGED <<m, ret, retRef, err, vec, fret, qret, th>>

ToEulerAnglesCall(q) == EulerCall("ToEulerAngles", q, ToEulerAngles(q))

ToEulerAnglesDegCall(q) == EulerCall("ToEulerAnglesDeg", q, ToEulerAnglesDeg(q))

\* Quat::FromEulerAnglesDeg(e).ToEulerAnglesDeg()
RoundTripCall(e) ==
    /\ op = "none"
    /\ op' = "RoundTrip"
    /\ arg' = [e |-> e]
    /\ n' = n + 1
    /\ qret' = FromEulerAnglesDeg(e)
    /\ vret' = ToEulerAnglesDeg(qret')
    /\ UNCHANGED <<m, ret, retRef, err, vec, fret, th>>

NextQuat ==
    \/ \E c \in CtorArgs : QuatCtorCall(c[1], c[2], c[3], c[4])
    \/ \E x \in TurnRads, y \in TurnRads, z \in TurnRads : FromEulerAngles3Call(x, y, z)
    \/ \E x \in TurnRads, y \in TurnRads, z \in TurnRads : FromEulerAnglesCall(V3(x, y, z))
    \/ \E x \in TurnDegs, y \in TurnDegs, z \in TurnDegs : FromEulerAnglesDeg3Call(x, y, z)
    \/ \E x \in TurnDegs, y \in TurnDegs, z \in TurnDegs : FromEulerAnglesDegCall(V3(x, y, z))
    \/ \E q \in EulerReceivers : ToEulerAnglesCall(q)
    \/ \E q \in EulerReceivers : ToEulerAnglesDegCall(q)
    \/ \E x \in TurnDegs, y \in TurnDegs, z \in TurnDegs : RoundTripCall(V3(x, y, z))
    \/ \E e \in EulerRads : FromRotationCall(e)
    \/ \E e \in EulerDegs : FromRotationDegCall(e)
    \/ \E aa \in AxisAngleRads : RotateAxis(aa[1], aa[2])
    \/ \E aa \in AxisAngleDegs : RotateDegAxis(aa[1], aa[2])
    \/ \E aa \in AxisAngleRads : WithRotationAxisCall(aa[1], aa[2])
    \/ \E aa \in AxisAngleDegs : WithRotationDegAxisCall(aa[1], aa[2])

SpecQuat == InitQuat /\ [][NextQuat]_vars

\* ------------------------------------------------------------------ threads

\* the most operations one thread runs
MaxOps == 2

Threads == {1, 2}

\* the static constants: one object each, shared by every thread
Statics ==
    [QuatIDENTITY |-> QuatIDENTITY, IDENTITY |-> IDENTITY, ZERO |-> ZERO,
     NEG_IDENTITY |-> NEG_IDENTITY, Vec4ZERO |-> IV4(0, 0, 0, 0)]

\* the Mat4 object each thread owns before it runs
OwnInstance(t) == IF t = 1 THEN IDENTITY ELSE Dense

\* the operations a thread may run on its object: mutating builders, and a
\* compound assignment whose right operand is a shared constant
ThreadOps ==
    {[v |-> IV3(1, 2, -3), name |-> "Translate"],
     [v |-> IV3(2, -1, 3), name |-> "Scale"],
     [name |-> "operator*=", other |-> "NEG_IDENTITY"]}

\* the value an operation computes from its receiver and the static constants
\* it reads: WithTranslation, WithScale, internal_mat * other.internal_mat
Computed(o, self, statics) ==
    CASE o.name = "Translate" -> WithTranslation(self, o.v)
      [] o.name = "Scale" -> WithScale(self, o.v)
      [] o.name = "operator*=" -> GlmMul(self, statics[o.other])

\* every call keeping its temporary in one static object
Scratch_Static(t) == 1

\* where the temporary of a call of thread t lives: in the frame of the call,
\* on the stack of t
Scratch(t) == t

InitThreads ==
    /\ m = IDENTITY
    /\ ret = IDENTITY
    /\ retRef = "value"
    /\ vret = NoVec
    /\ op = "none"
    /\ arg = NoArg
    /\ n = 0
    /\ err = "none"
    /\ vec = NoVec
    /\ fret = Zero
    /\ qret = QuatIDENTITY
    /\ th = [statics |-> Statics,
             own |-> [t \in Threads |-> OwnInstance(t)],
             tmp |-> [t \in Threads |-> ZERO],
             pending |-> [t \in Threads |-> NoArg],
             done |-> [t \in Threads |-> <<>>]]

\* thread t enters an operation and evaluates its right-hand side: it reads
\* its own object and the static constants, the value is a temporary
ThreadCompute(t, o) ==
    /\ th.pending[t] = NoArg
    /\ Len(th.done[t]) < MaxOps
    /\ th' = [th EXCEPT !.pending[t] = o,
                        !.tmp[Scratch(t)] = Computed(o, th.own[t], th.statics)]
    /\ UNCHANGED <<m, ret, retRef, vret, op, arg, n, err, vec, fret, qret>>

\* thread t assigns the temporary to its receiver and returns *this
ThreadAssign(t) ==
    /\ th.pending[t] # NoArg
    /\ th' = [th EXCEPT !.own[t] = th.tmp[Scratch(t)],
                        !.pending[t] = NoArg,
                        !.done[t] = Append(@, th.pending[t])]
    /\ UNCHANGED <<m, ret, retRef, vret, op, arg, n, err, vec, fret, qret>>

NextThreads ==
    \/ \E t \in Threads, o \in ThreadOps : ThreadCompute(t, o)
    \/ \E t \in Threads : ThreadAssign(t)

SpecThreads == InitThreads /\ [][NextThreads]_vars

\* ------------------------------------------------------------------ properties

\* entry (r, c) of the row-by-column product: the sum over k of A(r,k) * B(k,c),
\* where A(r,k), row r and column k, is stored at A[k][r]
StdProduct(A, B) ==
    [c \in Idx |-> [r \in Idx |->
        Add(Add(Add(Mul(A[0][r], B[c][0]), Mul(A[1][r], B[c][1])), Mul(A[2][r], B[c][2])),
            Mul(A[3][r], B[c][3]))]]

ComponentProduct(A, B) == [c \in Idx |-> [r \in Idx |-> Mul(A[c][r], B[c][r])]]

DiagonalOf(A) == [c \in Idx |-> [r \in Idx |-> IF c = r THEN A[c][r] ELSE Zero]]

\* the point p scaled component-wise by s, and moved by t
ScaledBy(s, p) == V4(Mul(s.x, p.x), Mul(s.y, p.y), Mul(s.z, p.z), One)

MovedBy(t, p) == V4(Add(p.x, t.x), Add(p.y, t.y), Add(p.z, t.z), One)

\* C1: the model matrix FromPosition(t) * R * FromScale(s) applied to a point p
\* with w = 1 gives the translation by t of R applied to p scaled by s: scale
\* first, then rotation, then translation; with R the identity the result is
\* (s.x*p.x + t.x, s.y*p.y + t.y, s.z*p.z + t.z, 1).
C1_ModelScalesRotatesTranslates ==
    op = "Model" =>
        LET R == FromRotationDeg(arg.e)
        IN  /\ vret = MovedBy(arg.t, MatMulVec(R, ScaledBy(arg.s, arg.p)))
            /\ R = IDENTITY =>
                 vret = V4(Add(Mul(arg.s.x, arg.p.x), arg.t.x),
                           Add(Mul(arg.s.y, arg.p.y), arg.t.y),
                           Add(Mul(arg.s.z, arg.p.z), arg.t.z), One)

\* a model matrix with a rotation, a non-uniform scale and a translation was applied
C1_Witness ==
    /\ op = "Model"
    /\ arg.e = IV3(90, 90, 0)
    /\ arg.s = IV3(2, -1, 3)
    /\ vret # arg.p
    /\ vret # MovedBy(arg.t, arg.p)

C2_Step ==
    /\ op' = "operator*" =>
          /\ ret' = StdProduct(m, arg'.other)
          /\ arg'.other = IDENTITY => ret' = m
    /\ op' = "operator*=" =>
          /\ m' = StdProduct(m, arg'.other)
          /\ arg'.other = IDENTITY => m' = m
    /\ op' = "Hadamard" =>
          /\ ret' = ComponentProduct(m, arg'.other)
          /\ arg'.other = IDENTITY => ret' = DiagonalOf(m)
          /\ StdProduct(m, arg'.other) # ComponentProduct(m, arg'.other)
                => ret' # MatMul(m, arg'.other)

\* C2: A * B and A *= B are the row-by-column product, entry (r,c) the sum over k
\* of A(r,k)*B(k,c); Hadamard(A, B) is the component-wise product; the two
\* differ wherever those products differ: A * IDENTITY is A, Hadamard(A, IDENTITY)
\* keeps only the diagonal of A.
C2_ProductIsNotHadamard == [][C2_Step]_vars

\* Hadamard with IDENTITY dropped the entries of a matrix off its diagonal
C2_Witness ==
    /\ op = "Hadamard"
    /\ arg.other = IDENTITY
    /\ m = Dense
    /\ ret # m
    /\ ret = DiagonalOf(m)

C3_Step ==
    /\ op' = "Translate" => m' = WithTranslation(m, arg'.v)
    /\ op' = "Scale" => m' = WithScale(m, arg'.v)
    /\ op' = "Rotate(angle,axis)" => m' = WithRotationAxis(m, arg'.angle, arg'.axis)
    /\ op' = "RotateDeg(angle,axis)" => m' = WithRotationDegAxis(m, arg'.angle, arg'.axis)
    /\ op' = "Rotate(euler)" => m' = WithRotationEuler(m, arg'.e)
    /\ op' = "RotateDeg(euler)" => m' = WithRotationDegEuler(m, arg'.e)
    /\ op' = "Rotate(quat)" => m' = WithRotationQuat(m, arg'.q)
    /\ op' = "Inverse" => m' = WithInverse(m)
    /\ op' = "Transpose" => m' = WithTranspose(m)
    /\ op' \in {"Translate", "Scale", "Rotate(angle,axis)", "RotateDeg(angle,axis)",
                "Rotate(euler)", "RotateDeg(euler)", "Rotate(quat)", "Inverse", "Transpose"}
          => retRef' = "this" /\ ret' = m'

\* C3: each mutating builder (Translate, Scale, Rotate and RotateDeg in every
\* overload, Inverse, Transpose) leaves the receiver equal to what the matching
\* With method returns on the receiver's value before the call, and returns a
\* reference to the receiver.
C3_MutatorsMatchWith == [][C3_Step]_vars

\* Translate overwrote a receiver that was not the identity and returned *this
C3_Witness ==
    /\ op = "Translate"
    /\ retRef = "this"
    /\ ret = m
    /\ m # FromPosition(arg.v)
    /\ m[3] # Dense[3]
    /\ m[0] = Dense[0]

WithOps ==
    {"WithTranslation", "WithScale", "WithRotation(angle,axis)", "WithRotationDeg(angle,axis)",
     "WithRotation(euler)", "WithRotationDeg(euler)", "WithRotation(quat)", "WithInverse",
     "WithTranspose"}

\* C4: the With methods (WithTranslation, WithScale, WithRotation and
\* WithRotationDeg in every overload, WithInverse, WithTranspose) never change
\* the receiver and return their result by value.
C4_WithLeavesReceiver == [][op' \in WithOps => (m' = m /\ retRef' = "value")]_vars

\* WithScale returned a matrix other than its receiver
C4_Witness ==
    /\ op = "WithScale"
    /\ ret # m
    /\ ret = WithScale(m, arg.v)

\* the identity matrix with column 3, or the diagonal, replaced
IdentityWithColumn3(v) ==
    [c \in Idx |-> [r \in Idx |->
        IF c = 3 THEN (IF r = 0 THEN v.x ELSE IF r = 1 THEN v.y ELSE IF r = 2 THEN v.z ELSE One)
        ELSE IF c = r THEN One ELSE Zero]]

IdentityWithDiagonal(v) ==
    [c \in Idx |-> [r \in Idx |->
        IF c # r THEN Zero
        ELSE IF c = 0 THEN v.x ELSE IF c = 1 THEN v.y ELSE IF c = 2 THEN v.z ELSE One]]

\* C5: FromPosition(v) is the identity with only column 3 changed to
\* (v.x, v.y, v.z, 1), FromScale(v) the identity with only the diagonal changed
\* to (v.x, v.y, v.z, 1); they equal IDENTITY.WithTranslation(v) and
\* IDENTITY.WithScale(v), and map a point (x, y, z, 1) to (x+v.x, y+v.y, z+v.z, 1)
\* and to (v.x*x, v.y*y, v.z*z, 1).
C5_FromPositionFromScale ==
    /\ op = "FromPosition" =>
          /\ ret = IdentityWithColumn3(arg.v)
          /\ ret = WithTranslation(IDENTITY, arg.v)
          /\ \A p \in Points : MatMulVec(ret, p) = MovedBy(arg.v, p)
    /\ op = "FromScale" =>
          /\ ret = IdentityWithDiagonal(arg.v)
          /\ ret = WithScale(IDENTITY, arg.v)
          /\ \A p \in Points : MatMulVec(ret, p) = ScaledBy(arg.v, p)

\* FromPosition returned a translation that moves a point
C5_Witness ==
    /\ op = "FromPosition"
    /\ ret # IDENTITY
    /\ \E p \in Points : MatMulVec(ret, p) # p

\* C6: the Euler route and the quaternion route agree: FromRotation(e) is
\* FromEulerAngles(e).ToMatrix(), M.WithRotation(e) is M * FromRotation(e) and
\* M.WithRotation(FromEulerAngles(e)); the same for FromRotationDeg and
\* WithRotationDeg with FromEulerAnglesDeg.
C6_EulerRouteIsQuaternionRoute ==
    /\ op = "FromRotation" => ret = ToMatrix(FromEulerAngles(arg.e))
    /\ op = "FromRotationDeg" => ret = ToMatrix(FromEulerAnglesDeg(arg.e))
    /\ op = "WithRotation(euler)" =>
          /\ ret = MatMul(m, FromRotation(arg.e))
          /\ ret = WithRotationQuat(m, FromEulerAngles(arg.e))
    /\ op = "WithRotationDeg(euler)" =>
          /\ ret = MatMul(m, FromRotationDeg(arg.e))
          /\ ret = WithRotationQuat(m, FromEulerAnglesDeg(arg.e))

\* WithRotation(euler) rotated a receiver about more than one axis
C6_Witness ==
    /\ op = "WithRotation(euler)"
    /\ arg.e = V3(Half, Half, Zero)
    /\ m = Dense
    /\ ret # m

\* depth after the perspective divide
DepthOf(clip) == Div(clip.z, clip.w)

Within(x, lo, hi) == Leq(lo, x) /\ Leq(x, hi)

\* the documented preconditions of FromPerspective, with a field of view and an
\* aspect ratio above zero
WellFormedPerspective(a) ==
    /\ Less(Zero, a.near)
    /\ Less(a.near, a.far)
    /\ Less(Zero, a.fov)
    /\ Less(Zero, a.aspect)

WellFormedBox(a) == Less(a.left, a.right) /\ Less(a.bottom, a.top) /\ Less(a.near, a.far)

\* C7: for near > 0 and far > near (any positive field of view and aspect
\* ratio) FromPerspective maps a camera-space point (x, y, -near, 1) to depth 0
\* and (x, y, -far, 1) to depth 1 after the perspective divide, every point
\* with -far <= z <= -near to a depth within [0, 1], and gives clip w = -z > 0.
C7_PerspectiveDepthRange ==
    (op = "ProjectFrustumPoint" /\ WellFormedPerspective(arg.proj)) =>
        /\ vret.w = Neg(arg.p.z)
        /\ SignOf(vret.w) > 0
        /\ Within(DepthOf(vret), Zero, One)
        /\ arg.p.z = Neg(arg.proj.near) => DepthOf(vret) = Zero
        /\ arg.p.z = Neg(arg.proj.far) => DepthOf(vret) = One

\* the spec's scenario (fov 90, aspect 1, near 0.1, far 100), at a point
\* strictly between the planes
C7_Witness ==
    /\ op = "ProjectFrustumPoint"
    /\ arg.proj = [fov |-> Int2F(90), aspect |-> One, near |-> Rat(1, 10), far |-> Int2F(100)]
    /\ Less(Neg(arg.proj.far), arg.p.z)
    /\ Less(arg.p.z, Neg(arg.proj.near))
    /\ Less(Zero, DepthOf(vret))
    /\ Less(DepthOf(vret), One)

\* C8: for left < right, bottom < top and near < far, FromOrthographic maps
\* every point of the view volume to clip x in [-1, 1], y in [-1, 1] and depth
\* in [0, 1], the near plane to depth 0, the far plane to depth 1 and the top
\* edge to the Y-down side (y = -1), also for volumes not centred on the origin.
C8_OrthographicMapsVolume ==
    (op = "ProjectBoxPoint" /\ WellFormedBox(arg.proj)) =>
        /\ Within(vret.x, Neg(One), One)
        /\ Within(vret.y, Neg(One), One)
        /\ Within(DepthOf(vret), Zero, One)
        /\ arg.p.z = Neg(arg.proj.near) => DepthOf(vret) = Zero
        /\ arg.p.z = Neg(arg.proj.far) => DepthOf(vret) = One
        /\ arg.p.y = arg.proj.top => vret.y = Neg(One)

\* the flip matrix diag(1, -1, -1, 1)
FlipF == [c \in Idx |-> [r \in Idx |->
            IF c # r THEN Zero ELSE IF c = 1 \/ c = 2 THEN Neg(One) ELSE One]]

FlippedVec(p) == V4(p.x, Neg(p.y), Neg(p.z), p.w)

\* the matrix a projection call builds before the flip
BaseOf(kind, a) ==
    IF kind = "FromPerspective" THEN PerspectiveMatrix(a.fov, a.aspect, a.near, a.far)
    ELSE IF kind = "FromOrthographic"
    THEN OrthoMatrix(a.left, a.right, a.bottom, a.top, a.near, a.far)
    ELSE OrthoMatrix(Div(Neg(a.width), Two), Div(a.width, Two),
                     Div(Neg(a.height), Two), Div(a.height, Two), a.near, a.far)

\* C9: FromPerspective and FromOrthographic return (base matrix) * F with the
\* same F = diag(1, -1, -1, 1); the result applied to (x, y, z, w) is the base
\* matrix applied to (x, -y, -z, w); FromOrthographic(width, height, near, far)
\* is FromOrthographic(-width/2, width/2, -height/2, height/2, near, far).
C9_SharedFlip ==
    /\ op \in ProjOps => ret = StdProduct(BaseOf(op, arg), FlipF)
    /\ op = "FromOrthographic(w,h)" =>
          ret = FromOrthographic(Div(Neg(arg.width), Two), Div(arg.width, Two),
                                 Div(Neg(arg.height), Two), Div(arg.height, Two),
                                 arg.near, arg.far)
    /\ op = "ProjectVec" =>
          vret = MatMulVec(BaseOf(arg.kind, arg.proj), FlippedVec(arg.p))

AllFinite(mat) == \A c \in Idx, r \in Idx : IsFinite(mat[c][r])

\* the parameters C10 calls malformed
Malformed(kind, a) ==
    IF kind = "FromPerspective"
    THEN ~Less(Zero, a.near) \/ ~Less(a.near, a.far) \/ IsZero(a.fov) \/ IsZero(a.aspect)
    ELSE IF kind = "FromOrthographic"
    THEN a.right = a.left \/ a.top = a.bottom \/ a.far = a.near
    ELSE IsZero(a.width) \/ IsZero(a.height) \/ a.far = a.near

\* C10: a projection built from malformed parameters (FromPerspective with
\* near <= 0, far <= near, zero field of view or zero aspect ratio;
\* FromOrthographic with right = left, top = bottom or far = near) fails at
\* construction, and no call returns a matrix with an entry that is Inf or NaN.
C10_MalformedProjectionFails ==
    op \in ProjOps =>
        /\ Malformed(op, arg) => err # "none"
        /\ err = "none" => AllFinite(ret)

\* the x, y, z of a Vec4 as a Vec3
SpatialOf(v) == V3(v.x, v.y, v.z)

\* |x| < 1e-6, and |x| >= 1e-6
BelowEpsilon(x) == Less(AbsF(x), Epsilon)

AtLeastEpsilon(x) == Leq(Epsilon, AbsF(x))

C12_ToVec3IsStrict ==
    op = "ToVec3" =>
        /\ err \in {"none", "runtime_error"}
        /\ err = "runtime_error" <=> IsZero(vec.w)
        /\ err = "none" =>
              vret = V3(Div(vec.x, vec.w), Div(vec.y, vec.w), Div(vec.z, vec.w))
        /\ IsZero(vec.w) => ToPoint(vec) = V4(vec.x, vec.y, vec.z, One)
        /\ AtLeastEpsilon(vec.w) => SpatialOf(ToPoint(vec)) = vret

\* ToVec3 divided by a w below the epsilon, where ToPoint keeps x, y, z
C12_Witness ==
    /\ op = "ToVec3"
    /\ err = "none"
    /\ vec.w = Neg(Tiny)
    /\ vret = V3(Neg(One), Zero, Zero)
    /\ SpatialOf(ToPoint(vec)) # vret

\* the length of (x, y, z)
SpatialMagnitude(v) == Sqrt(Add(Add(Mul(v.x, v.x), Mul(v.y, v.y)), Mul(v.z, v.z)))

\* other values for w
OtherWs == {Zero, One, Int2F(-5), NaN}

ExpectedCosine(a, b) ==
    LET c == Div(Add(Add(Mul(a.x, b.x), Mul(a.y, b.y)), Mul(a.z, b.z)),
                 Mul(SpatialMagnitude(a), SpatialMagnitude(b)))
    IN  IF Less(One, c) THEN One ELSE IF Less(c, Neg(One)) THEN Neg(One) ELSE c

\* C14: SpatialAngle ignores w; it returns 0 if either spatial magnitude is below
\* 1e-6 and only then, and otherwise the arc cosine of the cosine clamped to
\* [-1, 1].
C14_SpatialAngleGuardsEachMagnitude ==
    op = "SpatialAngle" =>
        LET magA == SpatialMagnitude(arg.a)
            magB == SpatialMagnitude(arg.b)
        IN  /\ \A w \in OtherWs :
                  SpatialAngle([arg.a EXCEPT !.w = w], [arg.b EXCEPT !.w = w]) = fret
            /\ (Less(magA, Epsilon) \/ Less(magB, Epsilon)) => fret = Zero
            /\ (IsFinite(magA) /\ IsFinite(magB)
                    /\ ~Less(magA, Epsilon) /\ ~Less(magB, Epsilon)) =>
                  fret = Acos(ExpectedCosine(arg.a, arg.b))

\* (1 - t) * p + t * q
Blend(p, q, t) == Add(Mul(Sub(One, t), p), Mul(t, q))

\* C15: for a and b with |w - 1| < 1e-6 and any t, not clamped, LerpPoints returns
\* the point a + t * (b - a) with w exactly 1; for any other a or b it fails the
\* assertion in a debug build instead of returning.
C15_LerpPointsOfPoints ==
    op = "LerpPoints" =>
        IF BelowEpsilon(Sub(arg.a.w, One)) /\ BelowEpsilon(Sub(arg.b.w, One))
        THEN /\ err = "none"
             /\ vret = V4(Blend(arg.a.x, arg.b.x, arg.t), Blend(arg.a.y, arg.b.y, arg.t),
                          Blend(arg.a.z, arg.b.z, arg.t), One)
        ELSE ~arg.ndebug => (err = "assert" /\ vret = NoVec)

\* t = 2 extrapolates past b, between two points whose w is within the epsilon of 1
C15_Witness ==
    /\ op = "LerpPoints"
    /\ arg.t = Two
    /\ arg.a.w = Add(One, Tiny)
    /\ arg.b.w = Sub(One, Tiny)
    /\ vret = IV4(4, -9, 12, 1)

\* C16: CreatePoint(p) has w = 1 and CreateVector(p) has w = 0, both with the
\* x, y, z of p; CreatePoint(p).ToVec3() returns p without an error.
C16_CreatePointRoundTrip ==
    /\ op = "CreatePoint" =>
          /\ err = "none"
          /\ vret.w = One
          /\ SpatialOf(vret) = arg.p
          /\ ToVec3(vret) = Returned(arg.p)
          /\ SpatialOf(Vec4CreateVector(arg.p)) = SpatialOf(vret)
    /\ op = "CreateVector" =>
          /\ err = "none"
          /\ vret.w = Zero
          /\ SpatialOf(vret) = arg.p

\* a point made of a non-zero p, whose ToVec3 is p
C16_Witness ==
    /\ op = "CreatePoint"
    /\ arg.p = V3(Two, Int2F(-4), Int2F(4))
    /\ ToVec3(vret).err = "none"
    /\ ToVec3(vret).val = arg.p

\* C17: a division of a Vec2, Vec3 or Vec4 by the scalar 0, by operator/ or by
\* operator/=, fails explicitly: nothing is returned or stored, and the receiver
\* of a failed operator/= is unchanged.
C17_DivisionByZeroFails ==
    [][(op' \in {"operator/", "operator/="} /\ op = "none" /\ IsZero(arg'.s)) =>
          (err' # "none" /\ vret' = NoVec /\ vec' = vec)]_vars

\* component i of a vector
Component(v, i) == CASE i = 0 -> v.x [] i = 1 -> v.y [] i = 2 -> v.z [] i = 3 -> v.w

Dimension(v) == IF "w" \in DOMAIN v THEN 4 ELSE IF "z" \in DOMAIN v THEN 3 ELSE 2

\* C18: for 0 <= i < N, vec[i] is component i (0 = x, 1 = y, 2 = z, 3 = w), read
\* or written through the reference; for i < 0 or i >= N the call signals
\* out-of-range and no component is read or written.
C18_IndexIsChecked ==
    [][(op' = "operator[]" /\ op = "none") =>
          LET i == arg'.index
          IN  IF 0 <= i /\ i < Dimension(vec)
              THEN /\ err' = "none"
                   /\ fret' = Component(vec, i)
                   /\ DOMAIN vec' = DOMAIN vec
                   /\ \A j \in 0..(Dimension(vec) - 1) :
                         Component(vec', j) =
                            IF j = i /\ arg'.write THEN arg'.value ELSE Component(vec, j)
              ELSE err' = "out_of_range" /\ fret' = fret /\ vec' = vec]_vars

\* the first component of a Vec3 was written through the reference, the others kept
C18_Witness ==
    /\ op = "operator[]"
    /\ arg.index = 0
    /\ arg.write
    /\ err = "none"
    /\ vec = V3(arg.value, Int2F(-4), Int2F(4))

\* C19: Normalize is total: a vector of magnitude 0 gives the zero vector and the
\* division-by-zero error of operator/ is never raised; any other vector is
\* divided by its magnitude.
C19_NormalizeIsTotal ==
    op = "Normalize" =>
        LET magnitude == L2Norm(vec)
        IN  /\ err = "none"
            /\ DOMAIN vret = DOMAIN vec
            /\ IsZero(magnitude) => \A c \in DOMAIN vec : vret[c] = Zero
            /\ ~IsZero(magnitude) => \A c \in DOMAIN vec : vret[c] = Div(vec[c], magnitude)

\* the zero Vec4 was normalized to the zero vector
C19_Witness ==
    /\ op = "Normalize"
    /\ err = "none"
    /\ vec = V4(Zero, Zero, Zero, Zero)
    /\ vret = vec

\* C20: for an invertible M, M * M.WithInverse() and M.WithInverse() * M are
\* IDENTITY, exactly so when the inverse is exactly representable (integer
\* matrices of determinant 1 or -1, translations, non-zero scales); the inverse of
\* a translation by v is the translation by -v; m.Inverse() leaves m holding the
\* inverse, WithInverse leaves m as it was.
C20_InverseLaw ==
    [][/\ op' = "WithInverse" =>
             /\ m' = m
             /\ MatMul(m, ret') = IDENTITY
             /\ MatMul(ret', m) = IDENTITY
             /\ \A v \in Vec3s : m = FromPosition(v) => ret' = FromPosition(Vec3Scale(v, Neg(One)))
       /\ op' = "Inverse" =>
             /\ MatMul(m, m') = IDENTITY
             /\ MatMul(m', m) = IDENTITY
             /\ ret' = m'
             /\ retRef' = "this"]_vars

\* m holds the inverse of a product of two shears and a scale: it is not the
\* identity, and its product with that matrix is
C20_Witness ==
    /\ op = "Inverse"
    /\ m # IDENTITY
    /\ MatMul(m, MatMul(Shear(1, 0, 2), MatMul(Shear(0, 2, -1), FromScale(IV3(2, -1, 4))))) = IDENTITY

\* C21: WithInverse() and Inverse() on a singular matrix (determinant 0: Mat4::ZERO,
\* a scale with a zero factor) fail explicitly, they do not return an ordinary
\* matrix value; and the failed Inverse() leaves the receiver as it was.
C21_SingularInverseFails ==
    [][(GlmDeterminant(m) = Zero /\ op' \in {"WithInverse", "Inverse"}) =>
            /\ err' # "none"
            /\ m' = m]_vars

\* C30: Vec4::Dot(a, b) is a.x*b.x + a.y*b.y + a.z*b.z + a.w*b.w, the sum over
\* all four components, so that Dot(v, v) is the square of L2Norm(v) (the sum
\* of the four squares) for every v, also when w is not zero.
C30_DotOfFourComponents ==
    op = "Dot" =>
        fret = Add(Add(Add(Mul(arg.a.x, arg.b.x), Mul(arg.a.y, arg.b.y)),
                       Mul(arg.a.z, arg.b.z)), Mul(arg.a.w, arg.b.w))

\* the matrix T(call) of a call of a chain
TransformOf(call) ==
    CASE call.name = "WithTranslation" -> FromPosition(call.v)
      [] call.name = "WithScale" -> FromScale(call.v)
      [] call.name = "WithRotation" -> ToMatrix(call.q)
      [] call.name = "operator*" -> call.other

\* T(arg[i]) * (T(arg[i+1]) * (... * T(arg[k]))), grouped from the right
RECURSIVE RightGrouped(_, _)
RightGrouped(i, k) ==
    IF i = k THEN TransformOf(arg[i])
    ELSE MatMul(TransformOf(arg[i]), RightGrouped(i + 1, k))

\* ((m * T(arg[1])) * T(arg[2])) * ... * T(arg[k]), in call order
RECURSIVE LeftGrouped(_)
LeftGrouped(k) ==
    IF k = 0 THEN m ELSE MatMul(LeftGrouped(k - 1), TransformOf(arg[k]))

\* T(arg[k]) * ... * T(arg[1]) * m: the calls applied on the left
RECURSIVE Reversed(_)
Reversed(k) ==
    IF k = 0 THEN m ELSE MatMul(TransformOf(arg[k]), Reversed(k - 1))

OnlyProducts == \A i \in 1..n : arg[i].name = "operator*"

\* C22: the matrix product is associative, (A*B)*C = A*(B*C), exactly so over
\* exactly representable entries: a chain P * R * S evaluated left to right
\* equals P * (R * S), and with one more factor ((P*R)*S)*T = P*(R*(S*T)) =
\* (P*R)*(S*T).
C22_ProductIsAssociative ==
    (n >= 2 /\ OnlyProducts) =>
        /\ ret = MatMul(m, RightGrouped(1, n))
        /\ ret = MatMul(MatMul(m, arg[1].other), RightGrouped(2, n))

\* P * R * S with P a translation, R a rotation and S a scale that do not
\* commute
C22_Witness ==
    /\ n = 3
    /\ OnlyProducts
    /\ m = FromPosition(IV3(1, 2, -3))
    /\ arg[1].other = FromRotationDeg(IV3(0, 90, 0))
    /\ arg[2].other = FromScale(IV3(2, -1, 3))
    /\ arg[3].other = FromPosition(IV3(0, 1, 2))
    /\ ret = MatMul(m, MatMul(arg[1].other, MatMul(arg[2].other, arg[3].other)))
    /\ ret # Reversed(3)

\* C28: every builder post-multiplies: M.WithTranslation(v) is M * FromPosition(v),
\* M.WithScale(s) is M * FromScale(s), M.WithRotation(q) is M * q.ToMatrix(), so
\* after any sequence of builder calls from M0 the matrix is
\* M0 * T(op1) * ... * T(opn) in call order.
C28_BuildersPostMultiply == ret = LeftGrouped(n)

\* IDENTITY.WithScale(s).WithRotation(r).WithTranslation(t) is ((IDENTITY*S)*R)*T
\* and is not T*R*S
C28_Witness ==
    /\ m = IDENTITY
    /\ n = 3
    /\ arg[1].name = "WithScale"
    /\ arg[2].name = "WithRotation"
    /\ arg[3].name = "WithTranslation"
    /\ ret = MatMul(MatMul(MatMul(IDENTITY, FromScale(arg[1].v)), ToMatrix(arg[2].q)), FromPosition(arg[3].v))
    /\ ret # Reversed(3)

\* the start of the chain and every call of it is a translation, a scale or a
\* product with one
BuiltFromPositionAndScale ==
    /\ \E v \in {IV3(0, 0, 0), IV3(1, 2, -3)} : m = FromPosition(v)
    /\ \A i \in 1..n :
          \/ arg[i].name \in {"WithTranslation", "WithScale"}
          \/ /\ arg[i].name = "operator*"
             /\ \E v \in {IV3(0, 1, 2), IV3(2, -1, 3)} : arg[i].other \in {FromPosition(v), FromScale(v)}

\* C29: FromPosition(t) * d is d for every direction d (w = 0); a matrix built
\* from FromPosition, FromScale and products maps a vector with w = 0 to one
\* with w = 0 and a point with w = 1 to one with w = 1.
C29_AffineKeepsW ==
    (op = "operator*(Vec4)" /\ BuiltFromPositionAndScale) =>
        LET p == arg[Len(arg)].p
        IN  /\ p.w \in {Zero, One} => vret.w = p.w
            /\ (n = 0 /\ p.w = Zero) => vret = p

\* a translation, then a scale and another translation, applied to a direction:
\* w stays 0 while the direction itself is scaled
C29_Witness ==
    /\ op = "operator*(Vec4)"
    /\ BuiltFromPositionAndScale
    /\ m = FromPosition(IV3(1, 2, -3))
    /\ n = 2
    /\ arg[1].name = "WithScale"
    /\ arg[3].p = IV4(1, 2, 3, 0)
    /\ vret.w = Zero
    /\ vret # arg[3].p

\* the real part and the imaginary part of a quaternion, read off the rotation
\* it stands for: glm's fields w and (x, y, z)
RealPart(q) == q.w

ImaginaryPart(q) == <<q.x, q.y, q.z>>

\* C23: Quat(x, y, z, w) takes the imaginary components first and the real one
\* last: the quaternion built has imaginary part (x, y, z) and real part w
\* whatever the storage order, and Quat::IDENTITY is (0, 0, 0, 1), real part 1
\* and no imaginary part; built from (sin 45, 0, 0, cos 45) it is the quarter
\* turn about X.
C23_ConstructorOrder ==
    /\ RealPart(QuatIDENTITY) = One
    /\ ImaginaryPart(QuatIDENTITY) = <<Zero, Zero, Zero>>
    /\ op = "Quat" =>
          /\ ImaginaryPart(qret) = <<arg.x, arg.y, arg.z>>
          /\ RealPart(qret) = arg.w
          /\ (arg.x = HalfSqrt2 /\ arg.w = HalfSqrt2) => ToEulerAnglesDeg(qret) = IV3(90, 0, 0)

\* four different components: no two orders give the same quaternion
C23_Witness ==
    /\ op = "Quat"
    /\ <<arg.x, arg.y, arg.z, arg.w>> = <<Int2F(3), Int2F(-4), Int2F(5), Two>>
    /\ qret.w = Two
    /\ qret.x = Int2F(3)

\* what C24 says of one call
C24_Step ==
    /\ op' = "FromEulerAnglesDeg(x,y,z)" =>
          /\ qret' = FromEulerAngles3(Mul(arg'.x, DEG_TO_RAD), Mul(arg'.y, DEG_TO_RAD),
                                      Mul(arg'.z, DEG_TO_RAD))
          /\ qret' = FromEulerAnglesDeg(V3(arg'.x, arg'.y, arg'.z))
          /\ qret' = FromEulerAngles(V3(Rat(arg'.x.a, 180), Rat(arg'.y.a, 180), Rat(arg'.z.a, 180)))
    /\ op' = "FromEulerAnglesDeg(Vec3)" =>
          /\ qret' = FromEulerAngles(Vec3Scale(arg'.e, DEG_TO_RAD))
          /\ qret' = FromEulerAnglesDeg3(arg'.e.x, arg'.e.y, arg'.e.z)
    /\ op' = "FromRotationDeg" => ret' = FromRotation(Vec3Scale(arg'.e, DEG_TO_RAD))
    /\ op' = "WithRotationDeg(angle,axis)" =>
          /\ ret' = WithRotationAxis(m, Mul(arg'.angle, DEG_TO_RAD), arg'.axis)
          /\ m' = m
    /\ op' = "RotateDeg(angle,axis)" =>
          m' = WithRotationAxis(m, Mul(arg'.angle, DEG_TO_RAD), arg'.axis)
    /\ op' = "ToEulerAnglesDeg" => vret' = Vec3Scale(ToEulerAngles(arg'.q), RAD_TO_DEG)

\* C24: every degree variant differs from its radian variant only by the factor
\* pi/180: FromEulerAnglesDeg(e) is FromEulerAngles(e * DEG_TO_RAD) in the
\* three-float and in the Vec3 overload, which agree; FromRotationDeg(e) is
\* FromRotation(e * DEG_TO_RAD); WithRotationDeg and RotateDeg of (a, axis) are
\* WithRotation and Rotate of (a * DEG_TO_RAD, axis); ToEulerAnglesDeg() is
\* ToEulerAngles() * RAD_TO_DEG.
C24_DegreesAreRadiansScaled == [][C24_Step]_vars

\* FromEulerAnglesDeg(90, 180, -90) is the quaternion of (pi/2, pi, -pi/2) and
\* not that of the same numbers taken as radians
C24_Witness ==
    /\ op = "FromEulerAnglesDeg(x,y,z)"
    /\ <<arg.x, arg.y, arg.z>> = <<Int2F(90), Int2F(180), Int2F(-90)>>
    /\ qret = FromEulerAngles3(Half, One, Neg(Half))
    /\ qret # FromEulerAngles3(Int2F(90), Int2F(180), Int2F(-90))

\* the Hamilton product p * q: the rotation q followed by the rotation p
QuatProduct(p, q) ==
    [x |-> Sub(Add(Add(Mul(p.w, q.x), Mul(p.x, q.w)), Mul(p.y, q.z)), Mul(p.z, q.y)),
     y |-> Add(Add(Sub(Mul(p.w, q.y), Mul(p.x, q.z)), Mul(p.y, q.w)), Mul(p.z, q.x)),
     z |-> Add(Sub(Add(Mul(p.w, q.z), Mul(p.x, q.y)), Mul(p.y, q.x)), Mul(p.z, q.w)),
     w |-> Sub(Sub(Sub(Mul(p.w, q.w), Mul(p.x, q.x)), Mul(p.y, q.y)), Mul(p.z, q.z))]

\* the rotations by the angle a about the X, the Y and the Z axis
AboutX(a) == [x |-> Sin(Mul(a, Half)), y |-> Zero, z |-> Zero, w |-> Cos(Mul(a, Half))]

AboutY(a) == [x |-> Zero, y |-> Sin(Mul(a, Half)), z |-> Zero, w |-> Cos(Mul(a, Half))]

AboutZ(a) == [x |-> Zero, y |-> Zero, z |-> Sin(Mul(a, Half)), w |-> Cos(Mul(a, Half))]

\* q and -q are the same rotation
SameRotation(p, q) ==
    \/ p = q
    \/ p = [x |-> Neg(q.x), y |-> Neg(q.y), z |-> Neg(q.z), w |-> Neg(q.w)]

\* the Euler angles of a FromEulerAngles call, of either overload
EulerArg == IF "e" \in DOMAIN arg THEN arg.e ELSE V3(arg.x, arg.y, arg.z)

FromEulerOps == {"FromEulerAngles(x,y,z)", "FromEulerAngles(Vec3)"}

\* a single non-zero angle gives the rotation about its own axis
PureRotations ==
    LET e == EulerArg
    IN  /\ (e.y = Zero /\ e.z = Zero) => qret = AboutX(e.x)
        /\ (e.x = Zero /\ e.z = Zero) => qret = AboutY(e.y)
        /\ (e.x = Zero /\ e.y = Zero) => qret = AboutZ(e.z)

\* C25 as claimed: FromEulerAngles(x, y, z) composes the Y rotation before the X
\* rotation before the Z rotation: the result is the product of the three
\* single-axis rotations in the order Y, X, Z (read as the order they are
\* applied in, or as the order of the factors; as a rotation, so up to sign),
\* and a single non-zero angle gives the pure rotation about its axis.
C25_ComposesYXZ ==
    op \in FromEulerOps =>
        LET e == EulerArg
        IN  /\ \/ SameRotation(qret, QuatProduct(QuatProduct(AboutZ(e.z), AboutX(e.x)), AboutY(e.y)))
               \/ SameRotation(qret, QuatProduct(QuatProduct(AboutY(e.y), AboutX(e.x)), AboutZ(e.z)))
            /\ PureRotations

\* what FromEulerAngles(x, y, z) does compute: the product qZ * qY * qX, the X
\* rotation applied first, then Y, then Z, the order Mat4::FromRotation documents
FromEulerComposesXYZ ==
    op \in FromEulerOps =>
        qret = QuatProduct(QuatProduct(AboutZ(EulerArg.z), AboutY(EulerArg.y)), AboutX(EulerArg.x))

\* a tolerance for angles in degrees
Tolerance == Rat(1, 1000)

Near(a, b) == ~IsNaN(a) /\ ~IsNaN(b) /\ ~Less(Tolerance, AbsF(Sub(a, b)))

HasNaN(v) == IsNaN(v.x) \/ IsNaN(v.y) \/ IsNaN(v.z)

IsUnit(q) == Add(Add(Add(Mul(q.w, q.w), Mul(q.x, q.x)), Mul(q.y, q.y)), Mul(q.z, q.z)) = One

\* C26: for every Euler triple e in degrees with |pitch| < 89, pitch being e.x,
\* FromEulerAnglesDeg(e).ToEulerAnglesDeg() is e within float tolerance; and
\* ToEulerAngles returns no NaN for a unit quaternion.
C26_EulerRoundTrip ==
    /\ (op = "RoundTrip" /\ Less(AbsF(arg.e.x), Int2F(89))) =>
          /\ Near(vret.x, arg.e.x)
          /\ Near(vret.y, arg.e.y)
          /\ Near(vret.z, arg.e.z)
    /\ (op \in {"ToEulerAngles", "ToEulerAnglesDeg"} /\ IsUnit(arg.q)) => ~HasNaN(vret)

\* the object of thread t after the first k of its operations, run with no
\* other thread
RECURSIVE Alone(_, _)
Alone(t, k) ==
    IF k = 0 THEN OwnInstance(t)
    ELSE Computed(th.done[t][k], Alone(t, k - 1), Statics)

\* C27: operations run by different threads on objects of their own do not
\* interfere: under every interleaving each thread has the values it has when
\* it runs alone, every step writes at most the object of the thread that
\* takes it, and the static constants (Mat4::IDENTITY, ZERO, NEG_IDENTITY,
\* Quat::IDENTITY, Vec4::ZERO) keep their initial value.
C27_ThreadsDoNotInterfere ==
    /\ \A t \in Threads : th.own[t] = Alone(t, Len(th.done[t]))
    /\ th.statics = Statics

\* both threads are inside an operation at once, each after a first one, and
\* their objects have changed
C27_Witness ==
    /\ \A t \in Threads : th.pending[t] # NoArg /\ Len(th.done[t]) = 1
    /\ \A t \in Threads : th.own[t] # OwnInstance(t)
    /\ th.pending[1].name = "operator*="
    /\ th.pending[2].name = "Translate"

====
